---- MODULE Spec2Model ----
(***************************************************************************)
(* A model of the MQTT-over-WebSocket broker of aiohttp-pydantic:           *)
(*   - the packet codec and the fragment assembler                          *)
(*     (aiohttp_pydantic/ws_subprotocol/mqtt.py),                           *)
(*   - the in-memory broker backend (aiohttp_pydantic/mq_backend/memory.py),*)
(*   - the connection task and the publisher (aiohttp_pydantic/wsapp.py).   *)
(*                                                                          *)
(* Bytes are integers 0..255, a bytes object is a sequence of them.  A str  *)
(* is a sequence of code points.  Python's 0-based slices are written with  *)
(* Slice.  An exception is a string naming its type; "none" is no exception.*)
(***************************************************************************)
EXTENDS Integers, Sequences, FiniteSets, TLC

\* ------------------------------------------------------------------------
\* Bounds of the model
\* ------------------------------------------------------------------------

\* Length of the long serialized message (remaining length of its PUBLISH >= 128).
LongLen == 130

\* Largest body of the packets fed to the assembler on its own.
MaxBody == 129

\* Number of topics of the longest SUBSCRIBE (remaining length of its SUBACK >= 128).
ManyTopics == 126

\* Number of topics of a SUBSCRIBE whose SUBACK has a remaining length above 255.
TooManyTopics == 254

\* Every remaining length up to this one is encoded and decoded.
MaxLength == 300

\* Length of the longest byte sequence handed to decode_remaining_length.
MaxBytes == 5

\* Length of the longest list handed to create_mqtt_suback_packet.
MaxQosLevels == 3

\* Number of WebSocket messages a connection task reads at most.
MaxMessages == 3

\* The calls other tasks make on the backend during one publish
MaxMutations == 2

\* ------------------------------------------------------------------------
\* Python primitives
\* ------------------------------------------------------------------------

Min(a, b) == IF a < b THEN a ELSE b

\* s[a:b] for 0 <= a, 0 <= b
Slice(s, a, b) == SubSeq(s, a + 1, Min(b, Len(s)))

\* s[a:]
SliceFrom(s, a) == SubSeq(s, a + 1, Len(s))

\* int.from_bytes(s, byteorder="big")
RECURSIVE FromBytes(_)
FromBytes(s) ==
    IF s = << >> THEN 0
    ELSE 256 * FromBytes(SubSeq(s, 1, Len(s) - 1)) + s[Len(s)]

\* n.to_bytes(2, byteorder="big"), 0 <= n < 65536
ToBytes2(n) == << n \div 256, n % 256 >>

Repeat(b, n) == [i \in 1..n |-> b]

\* bytes.decode("utf-8"), strict: the code points, or <<-1>> for UnicodeDecodeError
IsCont(b) == b >= 128 /\ b <= 191

DecodeError == << -1 >>

\* The number of bytes of the character the lead byte b0 starts, 0 for a
\* byte that starts none
Utf8Width(b0) ==
    IF b0 < 128 THEN 1
    ELSE IF b0 >= 194 /\ b0 <= 223 THEN 2
    ELSE IF b0 >= 224 /\ b0 <= 239 THEN 3
    ELSE IF b0 >= 240 /\ b0 <= 244 THEN 4
    ELSE 0

\* A well-formed character starts at index i of b
Utf8CharAt(b, i) ==
    LET b0 == b[i]
        n  == Utf8Width(b0)
    IN /\ n > 0
       /\ Len(b) >= i + n - 1
       /\ \A j \in 1..(n - 1) : IsCont(b[i + j])
       /\ (b0 = 224 => b[i + 1] >= 160)
       /\ (b0 = 237 => b[i + 1] <= 159)
       /\ (b0 = 240 => b[i + 1] >= 144)
       /\ (b0 = 244 => b[i + 1] <= 143)

\* The code point of the character that starts at index i of b
Utf8CodePoint(b, i) ==
    LET b0 == b[i]
        n  == Utf8Width(b0)
    IN IF n = 1 THEN b0
       ELSE IF n = 2 THEN (b0 - 192) * 64 + (b[i + 1] - 128)
       ELSE IF n = 3 THEN (b0 - 224) * 4096 + (b[i + 1] - 128) * 64 + (b[i + 2] - 128)
       ELSE (b0 - 240) * 262144 + (b[i + 1] - 128) * 4096
            + (b[i + 2] - 128) * 64 + (b[i + 3] - 128)

\* Concatenation of two decoded parts, an error in one is an error of the whole
Utf8Join(l, r) ==
    IF l = DecodeError \/ r = DecodeError THEN DecodeError ELSE l \o r

\* The decoding of the bytes lo..hi of b, which start at a character boundary.
\* A stretch that holds one lead byte at most is one character; a longer one
\* is cut at a lead byte near its middle and the two parts are decoded apart.
RECURSIVE Utf8DecodeSeg(_, _, _)
Utf8DecodeSeg(b, lo, hi) ==
    IF lo > hi THEN << >>
    ELSE LET leads == {i \in (lo + 1)..hi : ~IsCont(b[i])}
             mid   == (lo + hi + 1) \div 2
             m     == IF \E i \in leads : i >= mid
                      THEN CHOOSE i \in leads : i >= mid /\ \A j \in leads : j >= mid => i <= j
                      ELSE CHOOSE i \in leads : \A j \in leads : j <= i
         IN IF leads = {}
            THEN IF Utf8CharAt(b, lo) /\ Utf8Width(b[lo]) = hi - lo + 1
                 THEN << Utf8CodePoint(b, lo) >>
                 ELSE DecodeError
            ELSE Utf8Join(Utf8DecodeSeg(b, lo, m - 1), Utf8DecodeSeg(b, m, hi))

Utf8Decode(b) == Utf8DecodeSeg(b, 1, Len(b))

\* str.encode("utf-8") of a str without surrogates
Utf8EncodeChar(c) ==
    IF c < 128 THEN << c >>
    ELSE IF c < 2048 THEN << 192 + (c \div 64), 128 + (c % 64) >>
    ELSE IF c < 65536
    THEN << 224 + (c \div 4096), 128 + ((c \div 64) % 64), 128 + (c % 64) >>
    ELSE << 240 + (c \div 262144), 128 + ((c \div 4096) % 64),
            128 + ((c \div 64) % 64), 128 + (c % 64) >>

RECURSIVE Utf8Encode(_)
Utf8Encode(s) ==
    IF s = << >> THEN << >>
    ELSE IF Len(s) = 1 THEN Utf8EncodeChar(s[1])
    ELSE LET h == Len(s) \div 2
         IN Utf8Encode(SubSeq(s, 1, h)) \o Utf8Encode(SubSeq(s, h + 1, Len(s)))

\* ------------------------------------------------------------------------
\* Packet codec (ws_subprotocol/mqtt.py)
\* ------------------------------------------------------------------------

RECURSIVE encode_remaining_length(_)
encode_remaining_length(length) ==
    IF (length \div 128) > 0
    THEN << (length % 128) + 128 >> \o encode_remaining_length(length \div 128)
    ELSE << length % 128 >>

\* A decoding loop that accepts a fifth byte
RECURSIVE DecodeLoop_five_bytes(_, _, _, _)
DecodeLoop_five_bytes(data, i, value, multiplier) ==
    IF i > Len(data)
    THEN [err |-> "none", value |-> value, bytes_used |-> Len(data)]
    ELSE LET v == value + (data[i] % 128) * multiplier
         IN IF data[i] < 128
            THEN [err |-> "none", value |-> v, bytes_used |-> i]
            ELSE IF i > 4
            THEN [err |-> "ValueError", value |-> 0, bytes_used |-> 0]
            ELSE DecodeLoop_five_bytes(data, i + 1, v, multiplier * 128)

\* A decoding loop that gives up after three bytes
RECURSIVE DecodeLoop_three_bytes(_, _, _, _)
DecodeLoop_three_bytes(data, i, value, multiplier) ==
    IF i > Len(data)
    THEN [err |-> "none", value |-> value, bytes_used |-> Len(data)]
    ELSE LET v == value + (data[i] % 128) * multiplier
         IN IF data[i] < 128
            THEN [err |-> "none", value |-> v, bytes_used |-> i]
            ELSE IF i > 2
            THEN [err |-> "ValueError", value |-> 0, bytes_used |-> 0]
            ELSE DecodeLoop_three_bytes(data, i + 1, v, multiplier * 128)

\* The loop of decode_remaining_length from the byte at index i (1-based) on.
\* When the data ends before a byte without continuation bit, the loop ends
\* and the value accumulated so far is returned.
RECURSIVE DecodeLoop(_, _, _, _)
DecodeLoop(data, i, value, multiplier) ==
    IF i > Len(data)
    THEN [err |-> "none", value |-> value, bytes_used |-> Len(data)]
    ELSE LET v == value + (data[i] % 128) * multiplier
         IN IF data[i] < 128
            THEN [err |-> "none", value |-> v, bytes_used |-> i]
            ELSE IF i > 3
            THEN [err |-> "ValueError", value |-> 0, bytes_used |-> 0]
            ELSE DecodeLoop(data, i + 1, v, multiplier * 128)

decode_remaining_length(data) == DecodeLoop(data, 1, 0, 1)

\* MQTTConnAckReturnCode
CONNECTION_ACCEPTED == 0

UNACCEPTABLE_PROTOCOL_VERSION == 1

NOT_AUTHORIZED == 5

\* MQTTQoSLevel
AT_MOST_ONCE == 0

FAILURE == 128

\* b"MQTT"
MagicMQTT == << 77, 81, 84, 84 >>

Bit(n, mask) == (n \div mask) % 2 = 1

\* One "uint16 length + bytes" field read at offset: the bytes and the offset after it.
Field(message, offset) ==
    LET length == FromBytes(Slice(message, offset, offset + 2))
    IN [bytes |-> Slice(message, offset + 2, offset + 2 + length),
        next  |-> offset + 2 + length]

\* analyze_mqtt_connect_packet: the exception raised, and of the parameters
\* returned those the server reads (has_username: the key "username" is present).
analyze_mqtt_connect_packet(message) ==
    LET none == [err |-> "none", client_id |-> << >>, has_username |-> FALSE,
                 username |-> << >>]
    IN IF Slice(message, 2, 6) # MagicMQTT
       THEN [none EXCEPT !.err = "UnacceptableProtocolVersion"]
       ELSE IF Len(message) < 7 THEN [none EXCEPT !.err = "IndexError"]
       ELSE IF message[7] # 4
       THEN [none EXCEPT !.err = "UnacceptableProtocolVersion"]
       ELSE IF Len(message) < 8 THEN [none EXCEPT !.err = "IndexError"]
       ELSE LET flags         == message[8]
                will_flag     == Bit(flags, 4)
                password_flag == Bit(flags, 64)
                username_flag == Bit(flags, 128)
                client        == Field(message, 10)
                afterWillT    == IF will_flag THEN Field(message, client.next).next
                                 ELSE client.next
                afterWill     == IF will_flag THEN Field(message, afterWillT).next
                                 ELSE afterWillT
                user          == Field(message, afterWill)
            IN [err |-> "none", client_id |-> client.bytes,
                has_username |-> username_flag,
                username |-> IF username_flag THEN user.bytes ELSE << >>]

\* create_mqtt_connect_packet(client_id, username=...), the other arguments at
\* their defaults (keep_alive 60, clean session, no will, no password)
create_mqtt_connect_packet(client_id, username) ==
    LET flags == 2 + (IF username # << >> THEN 128 ELSE 0)
        variable_header == << 0, 4 >> \o MagicMQTT \o << 4, flags >> \o ToBytes2(60)
        payload == ToBytes2(Len(client_id)) \o Utf8Encode(client_id)
                   \o (IF username # << >>
                       THEN ToBytes2(Len(username)) \o Utf8Encode(username)
                       ELSE << >>)
    IN << 16 >> \o encode_remaining_length(Len(variable_header) + Len(payload))
       \o variable_header \o payload

\* create_mqtt_subscribe_packet: subscriptions is a sequence of [topic, qos].
\* The payload loop, one pair at a time; a long sequence is split in halves.
RECURSIVE SubscribePayload(_)
SubscribePayload(subscriptions) ==
    IF subscriptions = << >> THEN << >>
    ELSE IF Len(subscriptions) = 1
    THEN ToBytes2(Len(subscriptions[1].topic)) \o Utf8Encode(subscriptions[1].topic)
         \o << subscriptions[1].qos >>
    ELSE SubscribePayload(SubSeq(subscriptions, 1, Len(subscriptions) \div 2))
         \o SubscribePayload(SubSeq(subscriptions, Len(subscriptions) \div 2 + 1,
                                    Len(subscriptions)))

create_mqtt_subscribe_packet(packet_id, subscriptions) ==
    LET variable_header == ToBytes2(packet_id)
        payload == SubscribePayload(subscriptions)
    IN << 130 >> \o encode_remaining_length(Len(variable_header) + Len(payload))
       \o variable_header \o payload

\* One iteration of the while loop of analyze_mqtt_subscribe_packet from the
\* state s = [err, next, subscriptions], f the topic field at s.next
SubscribeItem(v, s, f, topic) ==
    IF topic = DecodeError THEN [s EXCEPT !.err = "UnicodeDecodeError"]
    ELSE IF ~(f.next < Len(v)) THEN [s EXCEPT !.err = "IndexError"]
    ELSE [err |-> "none", next |-> f.next + 1,
          subscriptions |-> Append(s.subscriptions,
                                   [topic |-> topic, qos |-> v[f.next + 1]])]

SubscribeField(v, s, f) == SubscribeItem(v, s, f, Utf8Decode(f.bytes))

\* At most k iterations of the while loop from the state s; the iterations
\* are split in halves so that a long payload is read without deep nesting.
RECURSIVE SubscribeSome(_, _, _)
SubscribeSome(v, s, k) ==
    IF s.err # "none" \/ ~(s.next < Len(v)) \/ k = 0 THEN s
    ELSE IF k = 1 THEN SubscribeField(v, s, Field(v, s.next))
    ELSE SubscribeSome(v, SubscribeSome(v, s, k \div 2), k - (k \div 2))

\* The while loop of analyze_mqtt_subscribe_packet: it ends after at most
\* Len(v) iterations, each reads three bytes or more.
SubscribeLoop(v, offset, acc) ==
    SubscribeSome(v, [err |-> "none", next |-> offset, subscriptions |-> acc], Len(v))

\* analyze_mqtt_subscribe_packet without the check of the empty list
SubscribeResult_unchecked(packet_id, r) ==
    [err |-> r.err, packet_id |-> packet_id,
     subscriptions |-> IF r.err # "none" THEN << >> ELSE r.subscriptions]

\* What analyze_mqtt_subscribe_packet returns or raises after its loop
SubscribeResult(packet_id, r) ==
    IF r.err # "none"
    THEN [err |-> r.err, packet_id |-> packet_id, subscriptions |-> << >>]
    ELSE IF r.subscriptions = << >>
    THEN [err |-> "ProtocolViolation", packet_id |-> packet_id, subscriptions |-> << >>]
    ELSE [err |-> "none", packet_id |-> packet_id, subscriptions |-> r.subscriptions]

analyze_mqtt_subscribe_packet(v) ==
    SubscribeResult(FromBytes(Slice(v, 0, 2)), SubscribeLoop(v, 2, << >>))

\* analyze_mqtt_publish_packet
analyze_mqtt_publish_packet(ptf, v) ==
    LET qos    == (ptf \div 2) % 4
        retain == Bit(ptf, 1)
        dup    == Bit(ptf, 8)
        f      == Field(v, 0)
        topic  == Utf8Decode(f.bytes)
        offset == IF qos > 0 THEN f.next + 2 ELSE f.next
    IN [err |-> IF topic = DecodeError THEN "UnicodeDecodeError" ELSE "none",
        topic_name |-> topic, qos |-> qos, retain |-> retain, dup |-> dup,
        payload |-> SliceFrom(v, Min(offset, Len(v)))]

\* The while loop of analyze_mqtt_unsubscribe_packet
RECURSIVE UnsubscribeLoop(_, _, _)
UnsubscribeLoop(v, offset, acc) ==
    IF ~(offset < Len(v)) THEN [err |-> "none", topics |-> acc]
    ELSE LET f     == Field(v, offset)
             topic == Utf8Decode(f.bytes)
         IN IF topic = DecodeError
            THEN [err |-> "UnicodeDecodeError", topics |-> acc]
            ELSE UnsubscribeLoop(v, f.next, Append(acc, topic))

analyze_mqtt_unsubscribe_packet(v) ==
    LET r == UnsubscribeLoop(v, 2, << >>)
    IN [err |-> r.err, packet_id |-> FromBytes(Slice(v, 0, 2)), topics |-> r.topics]

\* create_mqtt_suback_packet: a bytearray item above 255 is a ValueError
create_mqtt_suback_packet(packet_id, qos_levels) ==
    LET remaining_length == 2 + Len(qos_levels)
    IN IF remaining_length > 255
       THEN [err |-> "ValueError", bytes |-> << >>]
       ELSE [err |-> "none",
             bytes |-> << 144, remaining_length >> \o ToBytes2(packet_id) \o qos_levels]

\* A PINGRESP with a remaining length of 1
create_mqtt_pingresp_packet_long == << 208, 1, 0 >>

create_mqtt_pingresp_packet == << 208, 0 >>

create_mqtt_unsuback_packet(packet_id) == << 176, 2 >> \o ToBytes2(packet_id)

\* create_mqtt_publish_packet(topic, payload) with qos, retain and packet_id at
\* their defaults (AT_MOST_ONCE, False, None)
create_mqtt_publish_packet(topic, payload) ==
    LET topic_bytes     == Utf8Encode(topic)
        variable_header == ToBytes2(Len(topic_bytes)) \o topic_bytes
        payload_bytes   == Utf8Encode(payload)
    IN << 48 >> \o encode_remaining_length(Len(variable_header) + Len(payload_bytes))
       \o variable_header \o payload_bytes

create_mqtt_connack_packet(session_present, return_code) ==
    << 32, 2, IF session_present THEN 1 ELSE 0, return_code >>


\* ------------------------------------------------------------------------
\* Fragment assembler (ws_subprotocol/mqtt.py)
\* ------------------------------------------------------------------------

\* MQTTPacket.__init__
MQTTPacket(packet, payload_start) ==
    [packet |-> packet, payload_start |-> payload_start]

packet_type_and_flags(p) == p.packet[1]

variable_header_and_payload(p) == SliceFrom(p.packet, p.payload_start)

packet_type(p) == (p.packet[1] \div 16) % 16

NoPacket == [packet |-> << >>, payload_start |-> 0]

\* MQTTPacketAssembler.__init__
NewAssembler == [buffer |-> << >>, total_length |-> 0, start_payload |-> 0]

\* An assembler that empties its buffer when it returns a packet
append_fragment_drops_surplus(self, fragment) ==
    LET buffer == self.buffer \o fragment
    IN IF Len(buffer) < 2
       THEN [asm |-> [self EXCEPT !.buffer = buffer], packet |-> NoPacket, err |-> "none"]
       ELSE LET d     == decode_remaining_length(SliceFrom(buffer, 1))
                fresh == self.total_length = 0
                start == IF fresh THEN 1 + d.bytes_used ELSE self.start_payload
                total == IF fresh THEN start + d.value ELSE self.total_length
            IN IF fresh /\ d.err # "none"
               THEN [asm |-> [self EXCEPT !.buffer = buffer],
                     packet |-> NoPacket, err |-> d.err]
               ELSE IF Len(buffer) < total
               THEN [asm |-> [buffer |-> buffer, total_length |-> total,
                              start_payload |-> start],
                     packet |-> NoPacket, err |-> "none"]
               ELSE [asm |-> [buffer |-> << >>,
                              total_length |-> 0, start_payload |-> 0],
                     packet |-> MQTTPacket(Slice(buffer, 0, total), start),
                     err |-> "none"]

\* MQTTPacketAssembler.append_fragment: the assembler after the call, the
\* packet returned (NoPacket for None) and the exception raised.
append_fragment(self, fragment) ==
    LET buffer == self.buffer \o fragment
    IN IF Len(buffer) < 2
       THEN [asm |-> [self EXCEPT !.buffer = buffer], packet |-> NoPacket, err |-> "none"]
       ELSE LET d     == decode_remaining_length(SliceFrom(buffer, 1))
                fresh == self.total_length = 0
                start == IF fresh THEN 1 + d.bytes_used ELSE self.start_payload
                total == IF fresh THEN start + d.value ELSE self.total_length
            IN IF fresh /\ d.err # "none"
               THEN [asm |-> [self EXCEPT !.buffer = buffer],
                     packet |-> NoPacket, err |-> d.err]
               ELSE IF Len(buffer) < total
               THEN [asm |-> [buffer |-> buffer, total_length |-> total,
                              start_payload |-> start],
                     packet |-> NoPacket, err |-> "none"]
               ELSE [asm |-> [buffer |-> SliceFrom(buffer, total),
                              total_length |-> 0, start_payload |-> 0],
                     packet |-> MQTTPacket(Slice(buffer, 0, total), start),
                     err |-> "none"]

\* ------------------------------------------------------------------------
\* Broker backend (mq_backend/memory.py).  A backend is a record of the four
\* collections of MemoryMQBackend; _identifier_by_ws and _topics are
\* functions whose domain is the set of keys of the dict.  ws is the
\* connection ws_context.get() returns in the calling task.
\* ------------------------------------------------------------------------

\* The connections (WebSocketResponse objects)
Conns == {"ws1", "ws2"}

\* {}
EmptyDict == [x \in {} |-> {}]

\* dict without key k
Without(f, k) == [x \in DOMAIN f \ {k} |-> f[x]]

\* dict with f[k] = v
With(f, k, v) == [x \in DOMAIN f \cup {k} |-> IF x = k THEN v ELSE f[x]]

\* dict.get(k, default)
Get(f, k, default) == IF k \in DOMAIN f THEN f[k] ELSE default

\* MemoryMQBackend.__init__
NewBackend ==
    [identifier_by_ws |-> EmptyDict, topics |-> EmptyDict, available_topics |-> {},
     local_subscribers |-> EmptyDict]

\* A strip of every leading "/", as str.lstrip("/") does
RECURSIVE RemovePrefixSlash_every(_)
RemovePrefixSlash_every(topic) ==
    IF Len(topic) >= 1 /\ topic[1] = 47 THEN RemovePrefixSlash_every(Tail(topic)) ELSE topic

\* str.removeprefix("/")
RemovePrefixSlash(topic) ==
    IF Len(topic) >= 1 /\ topic[1] = 47 THEN Tail(topic) ELSE topic

\* str.isprintable() of an ASCII str
IsPrintable(topic) == \A i \in 1..Len(topic) : topic[i] >= 32 /\ topic[i] <= 126

\* MemoryMQBackend.ensure_topic_exists
ensure_topic_exists(mq, topic) ==
    LET t == RemovePrefixSlash(topic)
    IN IF ~IsPrintable(t)
       THEN [mq |-> mq, ret |-> FALSE]
       ELSE [mq |-> [mq EXCEPT !.available_topics = @ \cup {t}], ret |-> TRUE]

\* connect as it would be if a second CONNECT replaced the identity
connect_replaces(mq, ws, identifier) ==
    [mq |-> [mq EXCEPT !.identifier_by_ws = With(@, ws, identifier)], ret |-> TRUE]

\* MemoryMQBackend.connect
connect(mq, ws, identifier) ==
    IF ws \in DOMAIN mq.identifier_by_ws
    THEN [mq |-> mq, ret |-> FALSE]
    ELSE [mq |-> [mq EXCEPT !.identifier_by_ws = With(@, ws, identifier)],
          ret |-> TRUE]

\* subscribe as it would be without the check of the identity
subscribe_anonymous(mq, ws, topic) ==
    IF topic \notin mq.available_topics
    THEN [mq |-> mq, ret |-> FALSE]
    ELSE [mq |-> [mq EXCEPT !.topics = With(@, topic, Get(@, topic, {}) \cup {ws})],
          ret |-> TRUE]

\* MemoryMQBackend.subscribe
subscribe(mq, ws, topic) ==
    IF ws \notin DOMAIN mq.identifier_by_ws
    THEN [mq |-> mq, ret |-> FALSE]
    ELSE IF topic \notin mq.available_topics
    THEN [mq |-> mq, ret |-> FALSE]
    ELSE [mq |-> [mq EXCEPT !.topics = With(@, topic, Get(@, topic, {}) \cup {ws})],
          ret |-> TRUE]

\* unsubscribe as it would be without the pruning of the empty entry
unsubscribe_keeps_entry(mq, ws, topic) ==
    IF ws \notin DOMAIN mq.identifier_by_ws
    THEN [mq |-> mq, ret |-> FALSE]
    ELSE IF ws \notin Get(mq.topics, topic, {})
    THEN [mq |-> mq, ret |-> FALSE]
    ELSE [mq |-> [mq EXCEPT !.topics = With(@, topic, @[topic] \ {ws})], ret |-> TRUE]

\* MemoryMQBackend.unsubscribe
unsubscribe(mq, ws, topic) ==
    IF ws \notin DOMAIN mq.identifier_by_ws
    THEN [mq |-> mq, ret |-> FALSE]
    ELSE IF ws \notin Get(mq.topics, topic, {})
    THEN [mq |-> mq, ret |-> FALSE]
    ELSE LET left == mq.topics[topic] \ {ws}
         IN [mq |-> [mq EXCEPT !.topics = IF left = {} THEN Without(@, topic)
                                          ELSE With(@, topic, left)],
             ret |-> TRUE]

\* disconnect as it would be if the sweep stopped at the first topic
disconnect_first_topic(mq, ws) ==
    IF ws \notin DOMAIN mq.identifier_by_ws
    THEN [mq |-> mq, ret |-> TRUE]
    ELSE LET held == {t \in DOMAIN mq.topics : ws \in mq.topics[t]}
             one  == IF held = {} THEN {}
                     ELSE {CHOOSE t \in held : \A u \in held : Len(t) <= Len(u)}
             kept == {t \in DOMAIN mq.topics : t \notin one \/ mq.topics[t] \ {ws} # {}}
         IN [mq |-> [mq EXCEPT
                       !.identifier_by_ws = Without(@, ws),
                       !.topics = [t \in kept |-> IF t \in one THEN mq.topics[t] \ {ws}
                                                  ELSE mq.topics[t]]],
             ret |-> TRUE]

\* A disconnect that deletes every topic entry the connection is a member of
disconnect_whole_topics(mq, ws) ==
    IF ws \notin DOMAIN mq.identifier_by_ws
    THEN [mq |-> mq, ret |-> TRUE]
    ELSE LET kept == {t \in DOMAIN mq.topics : ws \notin mq.topics[t] /\ mq.topics[t] # {}}
         IN [mq |-> [mq EXCEPT !.identifier_by_ws = Without(@, ws),
                               !.topics = [t \in kept |-> mq.topics[t]]],
             ret |-> TRUE]

\* MemoryMQBackend.disconnect
disconnect(mq, ws) ==
    IF ws \notin DOMAIN mq.identifier_by_ws
    THEN [mq |-> mq, ret |-> TRUE]
    ELSE LET kept == {t \in DOMAIN mq.topics : mq.topics[t] \ {ws} # {}}
         IN [mq |-> [mq EXCEPT !.identifier_by_ws = Without(@, ws),
                               !.topics = [t \in kept |-> mq.topics[t] \ {ws}]],
             ret |-> TRUE]

\* MemoryMQBackend.register_local_subscriber
register_local_subscriber(mq, topic, subscriber) ==
    [mq EXCEPT !.local_subscribers = With(@, topic, Get(@, topic, {}) \cup {subscriber})]

\* What the garbage collection of the connection ws does to the weak
\* collections: the WeakKeyDictionary loses its key, every WeakSet its member.
\* The entries of _topics stay, also when their set became empty.
Finalize(mq, ws) ==
    [mq EXCEPT !.identifier_by_ws = Without(@, ws),
               !.topics = [t \in DOMAIN @ |-> @[t] \ {ws}]]

\* The subscribers MemoryMQBackend.publish sends to
PublishTargets(mq, topic) == Get(mq.topics, topic, {})

\* notify_local_subscribers calling the callbacks of every topic
LocalTargets_every_topic(mq, topic) ==
    UNION {mq.local_subscribers[t] : t \in DOMAIN mq.local_subscribers}

\* The callbacks MemoryMQBackend.notify_local_subscribers calls
LocalTargets(mq, topic) == Get(mq.local_subscribers, topic, {})

\* ------------------------------------------------------------------------
\* Protocol handler (ws_subprotocol/mqtt.py)
\* ------------------------------------------------------------------------

\* One call of a backend operation, as recorded in the step that made it
Call(op, arg, ret) == [op |-> op, arg |-> arg, ret |-> ret]

\* What analyze_mqtt_packet did: the backend after it, the response returned
\* (<< >> for None), the exception raised, the backend calls made in order,
\* and the local callbacks notified.
Outcome(mq, response, err, calls, notified) ==
    [mq |-> mq, response |-> response, err |-> err, calls |-> calls,
     notified |-> notified]

\* One iteration of the for loop of the SUBSCRIBE branch of
\* analyze_mqtt_packet: r is what mq_backend.subscribe(topic) returned
SubscribeOne(topic, r, qos, calls) ==
    [mq |-> r.mq,
     qos |-> Append(qos, IF r.ret THEN AT_MOST_ONCE ELSE FAILURE),
     calls |-> Append(calls, Call("subscribe", topic, r.ret))]

\* The for loop of the SUBSCRIBE branch of analyze_mqtt_packet; a long list
\* of topics is split in halves, done one after the other: SubscribeNext
\* goes on with the topics left after the first ones gave r.  The loop holds
\* one return code per call made; reading both here has r computed before
\* the topics left are entered.
RECURSIVE SubscribeEach(_, _, _, _, _)
SubscribeNext(ws, subscriptions, r) ==
    IF Len(r.qos) = Len(r.calls)
    THEN SubscribeEach(r.mq, ws, subscriptions, r.qos, r.calls)
    ELSE r

SubscribeEach(mq, ws, subscriptions, qos, calls) ==
    IF subscriptions = << >> THEN [mq |-> mq, qos |-> qos, calls |-> calls]
    ELSE IF Len(subscriptions) = 1
    THEN SubscribeOne(subscriptions[1].topic, subscribe(mq, ws, subscriptions[1].topic),
                      qos, calls)
    ELSE SubscribeNext(ws,
                       SubSeq(subscriptions, Len(subscriptions) \div 2 + 1,
                              Len(subscriptions)),
                       SubscribeEach(mq, ws,
                                     SubSeq(subscriptions, 1, Len(subscriptions) \div 2),
                                     qos, calls))

\* The loop of the UNSUBSCRIBE branch, left at the first topic that fails
RECURSIVE UnsubscribeEach_until_failure(_, _, _, _)
UnsubscribeEach_until_failure(mq, ws, topics, calls) ==
    IF topics = << >> THEN [mq |-> mq, calls |-> calls]
    ELSE LET r == unsubscribe(mq, ws, Head(topics))
         IN IF ~r.ret
            THEN [mq |-> r.mq, calls |-> Append(calls, Call("unsubscribe", Head(topics), r.ret))]
            ELSE UnsubscribeEach_until_failure(
                     r.mq, ws, Tail(topics),
                     Append(calls, Call("unsubscribe", Head(topics), r.ret)))

\* The for loop of the UNSUBSCRIBE branch of analyze_mqtt_packet
RECURSIVE UnsubscribeEach(_, _, _, _)
UnsubscribeEach(mq, ws, topics, calls) ==
    IF topics = << >> THEN [mq |-> mq, calls |-> calls]
    ELSE LET r == unsubscribe(mq, ws, Head(topics))
         IN UnsubscribeEach(r.mq, ws, Tail(topics),
                            Append(calls, Call("unsubscribe", Head(topics), r.ret)))

\* The CONNECT branch once the packet is analysed: data is what
\* analyze_mqtt_connect_packet returned, identifier is data.get("username", "")
ConnectReply(identifier, r) ==
    Outcome(r.mq,
            create_mqtt_connack_packet(FALSE,
                IF r.ret THEN CONNECTION_ACCEPTED ELSE NOT_AUTHORIZED),
            "none", << Call("connect", identifier, r.ret) >>, {})

ConnectAs(mq, ws, identifier) == ConnectReply(identifier, connect(mq, ws, identifier))

ConnectData(data, mq, ws) ==
    IF data.err # "none" THEN Outcome(mq, << >>, data.err, << >>, {})
    ELSE ConnectAs(mq, ws, IF data.has_username THEN data.username ELSE << >>)

ConnectBranch(packet, mq, ws) ==
    ConnectData(analyze_mqtt_connect_packet(variable_header_and_payload(packet)), mq, ws)

\* The PUBLISH branch once the packet is analysed
PublishData(data, mq) ==
    IF data.err # "none" THEN Outcome(mq, << >>, data.err, << >>, {})
    ELSE Outcome(mq, << >>, "none",
                 << Call("notify_local_subscribers",
                         << data.topic_name, data.payload >>, TRUE) >>,
                 LocalTargets(mq, data.topic_name))

PublishBranch(packet, mq, ws) ==
    PublishData(analyze_mqtt_publish_packet(packet_type_and_flags(packet),
                                            variable_header_and_payload(packet)), mq)

\* The SUBSCRIBE branch: the SUBACK built from the qos list of the loop
SubscribeAck(r, ack) == Outcome(r.mq, ack.bytes, ack.err, r.calls, {})

SubscribeReply(packet_id, r) ==
    SubscribeAck(r, create_mqtt_suback_packet(packet_id, r.qos))

SubscribeData(subscriptions, mq, ws) ==
    IF subscriptions.err # "none" THEN Outcome(mq, << >>, subscriptions.err, << >>, {})
    ELSE SubscribeReply(subscriptions.packet_id,
                        SubscribeEach(mq, ws, subscriptions.subscriptions, << >>, << >>))

SubscribeBranch(packet, mq, ws) ==
    SubscribeData(analyze_mqtt_subscribe_packet(variable_header_and_payload(packet)), mq, ws)

\* The UNSUBSCRIBE branch
UnsubscribeReply(packet_id, r) ==
    Outcome(r.mq, create_mqtt_unsuback_packet(packet_id), "none", r.calls, {})

UnsubscribeData(unsubscribe_data, mq, ws) ==
    IF unsubscribe_data.err # "none"
    THEN Outcome(mq, << >>, unsubscribe_data.err, << >>, {})
    ELSE UnsubscribeReply(unsubscribe_data.packet_id,
                          UnsubscribeEach(mq, ws, unsubscribe_data.topics, << >>))

UnsubscribeBranch(packet, mq, ws) ==
    UnsubscribeData(analyze_mqtt_unsubscribe_packet(variable_header_and_payload(packet)),
                    mq, ws)

\* analyze_mqtt_packet as it would be if PUBACK, PUBREC and PUBCOMP were
\* protocol violations
analyze_mqtt_packet_acks_refused(packet, mq, ws) ==
    LET type == packet_type(packet)
    IN CASE type = 1 -> ConnectBranch(packet, mq, ws)
         [] type = 2 -> Outcome(mq, << >>, "ProtocolViolation", << >>, {})
         [] type = 3 -> PublishBranch(packet, mq, ws)
         [] type = 4 -> Outcome(mq, << >>, "ProtocolViolation", << >>, {})
         [] type = 5 -> Outcome(mq, << >>, "ProtocolViolation", << >>, {})
         [] type = 6 -> Outcome(mq, << >>, "ProtocolViolation", << >>, {})
         [] type = 7 -> Outcome(mq, << >>, "ProtocolViolation", << >>, {})
         [] type = 8 -> SubscribeBranch(packet, mq, ws)
         [] type = 9 -> Outcome(mq, << >>, "ProtocolViolation", << >>, {})
         [] type = 10 -> UnsubscribeBranch(packet, mq, ws)
         [] type = 11 -> Outcome(mq, << >>, "ProtocolViolation", << >>, {})
         [] type = 12 -> Outcome(mq, create_mqtt_pingresp_packet, "none", << >>, {})
         [] type = 13 -> Outcome(mq, << >>, "ProtocolViolation", << >>, {})
         [] type = 14 -> Outcome(mq, << >>, "CloseWSConnection", << >>, {})
         [] OTHER -> Outcome(mq, << >>, "ProtocolViolation", << >>, {})

analyze_mqtt_packet(packet, mq, ws) ==
    LET type == packet_type(packet)
    IN CASE type = 1 -> ConnectBranch(packet, mq, ws)
         [] type = 2 -> Outcome(mq, << >>, "ProtocolViolation", << >>, {})
         [] type = 3 -> PublishBranch(packet, mq, ws)
         [] type = 4 -> Outcome(mq, << >>, "none", << >>, {})
         [] type = 5 -> Outcome(mq, << >>, "none", << >>, {})
         [] type = 6 -> Outcome(mq, << >>, "ProtocolViolation", << >>, {})
         [] type = 7 -> Outcome(mq, << >>, "none", << >>, {})
         [] type = 8 -> SubscribeBranch(packet, mq, ws)
         [] type = 9 -> Outcome(mq, << >>, "ProtocolViolation", << >>, {})
         [] type = 10 -> UnsubscribeBranch(packet, mq, ws)
         [] type = 11 -> Outcome(mq, << >>, "ProtocolViolation", << >>, {})
         [] type = 12 -> Outcome(mq, create_mqtt_pingresp_packet, "none", << >>, {})
         [] type = 13 -> Outcome(mq, << >>, "ProtocolViolation", << >>, {})
         [] type = 14 -> Outcome(mq, << >>, "CloseWSConnection", << >>, {})
         [] OTHER -> Outcome(mq, << >>, "ProtocolViolation", << >>, {})

\* MQTT.read_ws_packet after append_fragment returned a: nothing to do
\* without a packet, else the packet is analysed
Assembled(a, mq, ws) ==
    IF a.err # "none"
    THEN [asm |-> a.asm, packet |-> NoPacket,
          out |-> Outcome(mq, << >>, a.err, << >>, {})]
    ELSE IF a.packet = NoPacket
    THEN [asm |-> a.asm, packet |-> NoPacket,
          out |-> Outcome(mq, << >>, "none", << >>, {})]
    ELSE [asm |-> a.asm, packet |-> a.packet,
          out |-> analyze_mqtt_packet(a.packet, mq, ws)]

\* MQTT.read_ws_packet on the message msg = [type, data] with the assembler
\* asm: the assembler after it, the packet handed to analyze_mqtt_packet
\* (NoPacket when none was), and the outcome.
read_ws_packet(asm, msg, mq, ws) ==
    IF msg.type # "BINARY"
    THEN [asm |-> asm, packet |-> NoPacket,
          out |-> Outcome(mq, << >>, "Exception", << >>, {})]
    ELSE Assembled(append_fragment(asm, msg.data), mq, ws)

\* MQTT.publish as far as the call of the backend: the payload handed to
\* MemoryMQBackend.publish, a str, or the UnicodeDecodeError of the decode
MqttPublishPayload(topic, payload) ==
    LET text == Utf8Decode(create_mqtt_publish_packet(topic, payload))
    IN [err |-> IF text = DecodeError THEN "UnicodeDecodeError" ELSE "none",
        text |-> text]

\* ------------------------------------------------------------------------
\* The application and its clients: what the model draws its inputs from
\* ------------------------------------------------------------------------

\* Topic names: "a", "/a", "b", "z" and "\x07"
TopicA == << 97 >>

TopicSlashA == << 47, 97 >>

TopicB == << 98 >>

TopicZ == << 122 >>

TopicBell == << 7 >>

\* WSApp._publishers of the applications modelled: the message type Book is
\* bound to "a" in one, to "/a" in the other.
AppPublishers == {[t \in {"Book"} |-> TopicA], [t \in {"Book"} |-> TopicSlashA]}

\* WSApp._subscribers: one callback bound to "b"
AppSubscribers == [t \in {TopicB} |-> {"on_b"}]

\* WSApp.topics
AppTopics(pubs) == {pubs[t] : t \in DOMAIN pubs} \cup DOMAIN AppSubscribers

\* The backend after wsapp.setup and the startup of the application: every
\* topic of the WSApp went through ensure_topic_exists, every subscriber of
\* the WSApp through register_local_subscriber.
SetupBackend(pubs) ==
    [NewBackend EXCEPT
        !.available_topics =
            UNION {ensure_topic_exists(NewBackend, t).mq.available_topics :
                   t \in AppTopics(pubs)},
        !.local_subscribers =
            [t \in DOMAIN AppSubscribers |->
                UNION {LocalTargets(register_local_subscriber(NewBackend, t, f), t) :
                       f \in AppSubscribers[t]}]]

\* message.model_dump_json() of the messages published: "hi" and a long text
ShortJson == << 104, 105 >>

LongJson == Repeat(120, LongLen)

AppMessages ==
    {[type |-> "Book", json |-> ShortJson], [type |-> "Book", json |-> LongJson],
     [type |-> "Note", json |-> ShortJson]}

\* The packets clients send
PktConnect == create_mqtt_connect_packet(<< 99 >>, << >>)

PktConnectUser == create_mqtt_connect_packet(<< 99 >>, << 117 >>)

\* PktConnect with the protocol name "MQTX"
PktBadMagic == [PktConnect EXCEPT ![8] = 88]

\* PktConnect with the protocol level 5
PktBadLevel == [PktConnect EXCEPT ![9] = 5]

PktSubscribe(packet_id, topic) ==
    create_mqtt_subscribe_packet(packet_id, << [topic |-> topic, qos |-> 0] >>)

\* SUBSCRIBE with a packet id and no topic
PktSubscribeEmpty == << 130, 2, 0, 7 >>

\* SUBSCRIBE whose topic "a" is not followed by the QoS byte
PktSubscribeTruncated == << 130, 5, 0, 7, 0, 1, 97 >>

PktUnsubscribe(packet_id, topic) ==
    << 162 >> \o encode_remaining_length(4 + Len(topic)) \o ToBytes2(packet_id)
    \o ToBytes2(Len(topic)) \o topic

PktPingreq == << 192, 0 >>

PktDisconnect == << 224, 0 >>

PktConnack == create_mqtt_connack_packet(FALSE, CONNECTION_ACCEPTED)

ClientPackets ==
    {PktConnect, PktConnectUser, PktBadMagic, PktBadLevel,
     PktSubscribe(1, TopicA), PktSubscribe(2, TopicSlashA), PktSubscribe(3, TopicZ),
     PktSubscribeEmpty, PktSubscribeTruncated, PktUnsubscribe(4, TopicA),
     PktPingreq, PktDisconnect, PktConnack,
     create_mqtt_publish_packet(TopicB, ShortJson)}

\* The data of the binary WebSocket messages: whole packets, two packets in
\* one message, and the two halves of a packet
PacketPairs == {<< PktConnect, PktSubscribe(1, TopicA) >>, << PktPingreq, PktPingreq >>}

Fragments ==
    ClientPackets \cup {p[1] \o p[2] : p \in PacketPairs} \cup {<< 192 >>, << 0 >>}

Binary(d) == [type |-> "BINARY", data |-> d]

WsMessages == {Binary(d) : d \in Fragments} \cup {[type |-> "TEXT", data |-> << >>]}

\* The messages of the clients of the model with several connections
FewMessages ==
    {Binary(PktConnect), Binary(PktSubscribe(1, TopicA)),
     Binary(PktSubscribe(2, TopicSlashA)), Binary(PktDisconnect), Binary(PktConnack)}

\* What clients ask for in a SUBSCRIBE: packet id and (topic, QoS) pairs, in
\* one request a topic never declared ("z") between declared ones
SubscribeRequests ==
    {[packet_id |-> 1, subscriptions |-> << [topic |-> TopicA, qos |-> 0] >>],
     [packet_id |-> 5, subscriptions |-> << [topic |-> TopicA, qos |-> 1],
                                            [topic |-> TopicZ, qos |-> 0],
                                            [topic |-> TopicB, qos |-> 2] >>],
     [packet_id |-> 6, subscriptions |-> << [topic |-> TopicZ, qos |-> 2],
                                            [topic |-> TopicA, qos |-> 0] >>],
     [packet_id |-> 9, subscriptions |->
         [i \in 1..ManyTopics |-> [topic |-> IF i % 2 = 1 THEN TopicA ELSE TopicZ,
                                   qos |-> i % 3]]],
     [packet_id |-> 10, subscriptions |->
         [i \in 1..TooManyTopics |-> [topic |-> IF i % 2 = 1 THEN TopicZ ELSE TopicA,
                                      qos |-> 0]]]}

\* What clients ask for in an UNSUBSCRIBE: packet id and topics
UnsubscribeRequests ==
    {[packet_id |-> 4, topics |-> << TopicA >>],
     [packet_id |-> 7, topics |-> << TopicZ, TopicA, TopicB >>],
     [packet_id |-> 8, topics |-> << >>]}

\* The payload of an UNSUBSCRIBE packet
RECURSIVE UnsubscribePayload(_)
UnsubscribePayload(topics) ==
    IF topics = << >> THEN << >>
    ELSE ToBytes2(Len(topics[1])) \o Utf8Encode(topics[1]) \o UnsubscribePayload(Tail(topics))

PktUnsubscribeAll(packet_id, topics) ==
    << 162 >> \o encode_remaining_length(2 + Len(UnsubscribePayload(topics)))
    \o ToBytes2(packet_id) \o UnsubscribePayload(topics)

\* What clients publish: topic, payload and QoS ("b" has a local callback)
PublishRequests ==
    {[topic |-> TopicB, payload |-> ShortJson, qos |-> 0],
     [topic |-> TopicB, payload |-> << 111, 107 >>, qos |-> 1],
     [topic |-> TopicA, payload |-> ShortJson, qos |-> 0]}

\* A PUBLISH packet of a client; with a QoS above 0 it carries the packet id 1
PktPublish(topic, payload, qos) ==
    << 48 + 2 * qos >>
    \o encode_remaining_length(2 + Len(topic) + (IF qos > 0 THEN 2 ELSE 0) + Len(payload))
    \o ToBytes2(Len(topic)) \o topic \o (IF qos > 0 THEN << 0, 1 >> ELSE << >>) \o payload

\* Packets of the types a client must not send: CONNACK, PUBREL, SUBACK,
\* UNSUBACK, PINGRESP and the type codes 0 and 15
ForbiddenPackets ==
    {PktConnack, << 98, 2, 0, 1 >>, << 144, 3, 0, 1, 0 >>, << 176, 2, 0, 1 >>,
     << 208, 0 >>, << 0, 0 >>, << 240, 0 >>}

\* The messages of a client that only connects and subscribes to "b"
SubscriberMessages == {Binary(PktConnect), Binary(PktSubscribe(2, TopicB))}

\* The acknowledgements of the QoS 1 and 2 flows a client may send: PUBACK,
\* PUBREC and PUBCOMP, each with the packet id 1
AckPackets == {<< 64, 2, 0, 1 >>, << 80, 2, 0, 1 >>, << 112, 2, 0, 1 >>}

\* Packets with a length prefix that announces more bytes than the packet
\* holds: a CONNECT whose client id of 5 bytes has one, a PUBLISH and an
\* UNSUBSCRIBE whose topic of 9 bytes has one, and such a SUBSCRIBE
TruncatedPackets ==
    {<< 16, 13, 0, 4, 77, 81, 84, 84, 4, 2, 0, 60, 0, 5, 99 >>,
     << 48, 3, 0, 9, 98 >>,
     << 162, 5, 0, 4, 0, 9, 97 >>,
     PktSubscribeTruncated}

\* The messages of a client that sends whole packets of every type
\* SUBSCRIBE packets without a topic/QoS pair: with and without a packet id
EmptySubscribes == {PktSubscribeEmpty, << 130, 0 >>}

PacketMessages ==
    {Binary(PktConnect), Binary(PktPingreq)}
    \cup {Binary(d) : d \in EmptySubscribes}
    \cup {Binary(create_mqtt_subscribe_packet(q.packet_id, q.subscriptions)) :
          q \in SubscribeRequests}
    \cup {Binary(PktUnsubscribeAll(q.packet_id, q.topics)) : q \in UnsubscribeRequests}
    \cup {Binary(PktPublish(q.topic, q.payload, q.qos)) : q \in PublishRequests}
    \cup {Binary(d) : d \in ForbiddenPackets}
    \cup {Binary(d) : d \in {PktDisconnect} \cup AckPackets \cup TruncatedPackets}

\* The identifiers and topics the backend is called with directly
Identifiers == {<< 117 >>, << 118 >>}

ApiTopics == {TopicA, TopicSlashA, TopicB, TopicBell}

\* ------------------------------------------------------------------------
\* State
\* ------------------------------------------------------------------------

VARIABLES
    mq,           \* the MemoryMQBackend
    publishers,   \* WSApp._publishers
    ws,           \* per connection: "new", "open" (its websocket_handler runs),
                  \* "closed" (the handler exited), "collected" (object freed)
    asm,          \* per connection: the MQTTPacketAssembler of its MQTT protocol
    nmsg,         \* per connection: the number of messages its handler has read
    exit_reason,  \* per connection: why websocket_handler left its loop
    ensured,      \* the topic names ensure_topic_exists has returned true for
    last,         \* the last step: operation, arguments, result, what it sent
    feed          \* an assembler fed the fragments of a byte stream on its own

vars == << mq, publishers, ws, asm, nmsg, exit_reason, ensured, last, feed >>

NoSent == [c \in Conns |-> << >>]

NoLast ==
    [op |-> "init", ws |-> "none", arg |-> << >>, ret |-> "none", err |-> "none",
     packets |-> << >>, calls |-> << >>, sent |-> NoSent, failed |-> {},
     exited |-> FALSE, notified |-> {}, before |-> NewBackend]

\* feed: the assembler, the byte stream, its bytes not fed yet, the packets
\* returned so far, what the last append_fragment returned and raised
IdleFeed ==
    [asm |-> NewAssembler, stream |-> << >>, rest |-> << >>, returned |-> << >>,
     ret |-> NoPacket, err |-> "none"]

\* ------------------------------------------------------------------------
\* The connection task (wsapp.py, WSApp.websocket_handler) and the publisher
\* ------------------------------------------------------------------------

\* websocket_handler up to its loop: the connection is accepted, a protocol
\* with a fresh assembler is built
Accept(c) ==
    /\ ws[c] = "new"
    /\ ws' = [ws EXCEPT ![c] = "open"]
    /\ asm' = [asm EXCEPT ![c] = NewAssembler]
    /\ last' = [NoLast EXCEPT !.op = "accept", !.ws = c]
    /\ UNCHANGED << mq, publishers, nmsg, exit_reason, ensured, feed >>

\* The backend calls websocket_handler makes when it leaves: its finally
\* block resets ws_context and closes the WebSocket
ExitCalls(mq0, c) == [mq |-> mq0, calls |-> << >>]

\* A handler whose protocol objects share one assembler
Handled_shared_assembler(c, msg, r, exits, x) ==
    /\ asm' = [d \in Conns |-> r.asm]
    /\ mq' = IF exits THEN x.mq ELSE r.out.mq
    /\ ws' = [ws EXCEPT ![c] = IF exits THEN "closed" ELSE "open"]
    /\ exit_reason' = [exit_reason EXCEPT ![c] = r.out.err]
    /\ last' = [NoLast EXCEPT
                  !.op = "read_ws_packet", !.ws = c, !.arg = msg,
                  !.err = r.out.err,
                  !.packets = IF r.packet = NoPacket THEN << >> ELSE << r.packet >>,
                  !.calls = r.out.calls \o (IF exits THEN x.calls ELSE << >>),
                  !.sent = [NoSent EXCEPT ![c] =
                              IF r.out.response # << >> /\ ~exits
                              THEN << r.out.response >> ELSE << >>],
                  !.exited = exits, !.notified = r.out.notified]

\* The loop of websocket_handler after read_ws_packet returned or raised r:
\* the response is sent, CloseWSConnection breaks the loop, every other
\* exception leaves the handler through the finally block.
Handled(c, msg, r, exits, x) ==
    /\ asm' = [asm EXCEPT ![c] = r.asm]
    /\ mq' = IF exits THEN x.mq ELSE r.out.mq
    /\ ws' = [ws EXCEPT ![c] = IF exits THEN "closed" ELSE "open"]
    /\ exit_reason' = [exit_reason EXCEPT ![c] = r.out.err]
    /\ last' = [NoLast EXCEPT
                  !.op = "read_ws_packet", !.ws = c, !.arg = msg,
                  !.err = r.out.err,
                  !.packets = IF r.packet = NoPacket THEN << >> ELSE << r.packet >>,
                  !.calls = r.out.calls \o (IF exits THEN x.calls ELSE << >>),
                  !.sent = [NoSent EXCEPT ![c] =
                              IF r.out.response # << >> /\ ~exits
                              THEN << r.out.response >> ELSE << >>],
                  !.exited = exits, !.notified = r.out.notified]

\* A loop that CloseWSConnection does not break
HandlerStep_ignores_close(c, msg, r) ==
    Handled(c, msg, r, r.out.err \notin {"none", "CloseWSConnection"},
            ExitCalls(r.out.mq, c))

\* A loop that goes on after every exception but CloseWSConnection
HandlerStep_goes_on(c, msg, r) ==
    Handled(c, msg, r, r.out.err = "CloseWSConnection", ExitCalls(r.out.mq, c))

HandlerStep(c, msg, r) ==
    Handled(c, msg, r, r.out.err # "none", ExitCalls(r.out.mq, c))

\* One iteration of the loop of websocket_handler: the message msg goes
\* through read_ws_packet.
ReadWsPacket(c, msg) ==
    /\ ws[c] = "open"
    /\ nmsg[c] < MaxMessages
    /\ nmsg' = [nmsg EXCEPT ![c] = @ + 1]
    /\ HandlerStep(c, msg, read_ws_packet(asm[c], msg, mq, c))
    /\ UNCHANGED << publishers, ensured, feed >>

\* The peer closes the transport: the loop of websocket_handler ends and the
\* handler leaves through its finally block.
PeerClose(c) ==
    /\ ws[c] = "open"
    /\ LET x == ExitCalls(mq, c)
       IN /\ mq' = x.mq
          /\ last' = [NoLast EXCEPT !.op = "peer_close", !.ws = c, !.exited = TRUE,
                                    !.calls = x.calls]
    /\ ws' = [ws EXCEPT ![c] = "closed"]
    /\ exit_reason' = [exit_reason EXCEPT ![c] = "closed_by_peer"]
    /\ UNCHANGED << publishers, asm, nmsg, ensured, feed >>

\* The WebSocketResponse of a handler that exited is garbage collected, at a
\* moment the program does not choose.
Collect(c) ==
    /\ ws[c] = "closed"
    /\ ws' = [ws EXCEPT ![c] = "collected"]
    /\ mq' = Finalize(mq, c)
    /\ last' = [NoLast EXCEPT !.op = "collect", !.ws = c]
    /\ UNCHANGED << publishers, asm, nmsg, exit_reason, ensured, feed >>

\* A publish that sends to nobody when one of the subscribers is closed
BackendPublish_all_or_nothing(mq0, status, topic, text) ==
    LET targets == PublishTargets(mq0, topic)
        failed  == {c \in targets : status[c] # "open"}
    IN [sent |-> [c \in Conns |-> IF c \in targets /\ failed = {}
                                  THEN << Utf8Encode(text) >> ELSE << >>],
        targets |-> targets, failed |-> failed,
        err |-> IF failed # {} THEN "ConnectionResetError" ELSE "none"]

\* MemoryMQBackend.publish: send_bytes on every subscriber of the topic; on a
\* closed WebSocket it raises.  What each connection is sent, to which the
\* send failed, the exception gather raises.
BackendPublish(mq0, status, topic, text) ==
    LET targets == PublishTargets(mq0, topic)
        failed  == {c \in targets : status[c] # "open"}
    IN [sent |-> [c \in Conns |-> IF c \in targets \ failed
                                  THEN << Utf8Encode(text) >> ELSE << >>],
        targets |-> targets, failed |-> failed,
        err |-> IF failed # {} THEN "ConnectionResetError" ELSE "none"]

\* Publisher.publish once MQTT.publish has built the payload p and the
\* backend has sent it (b)
Published(message, topic, p, b) ==
    IF p.err # "none"
    THEN last' = [NoLast EXCEPT !.op = "publish", !.arg = message, !.err = p.err]
    ELSE last' = [NoLast EXCEPT !.op = "publish", !.arg = message,
                                !.err = b.err, !.sent = b.sent, !.failed = b.failed,
                                !.calls = << Call("publish", topic, TRUE) >>]

\* MQTT.publish(topic, payload): the packet is built, decoded to a str and
\* handed to the backend
MqttPublish(message, topic, p) ==
    Published(message, topic, p, BackendPublish(mq, ws, topic, p.text))

\* Publisher.publish(message)
PublisherPublish(message) ==
    /\ IF message.type \notin DOMAIN publishers
       THEN last' = [NoLast EXCEPT !.op = "publish", !.arg = message,
                                   !.err = "ValueError"]
       ELSE MqttPublish(message, publishers[message.type],
                        MqttPublishPayload(publishers[message.type], message.json))
    /\ UNCHANGED << mq, publishers, ws, asm, nmsg, exit_reason, ensured, feed >>

\* The application after wsapp.setup and its startup, no connection yet
Init ==
    /\ publishers \in AppPublishers
    /\ mq = SetupBackend(publishers)
    /\ ensured = {t \in AppTopics(publishers) : ensure_topic_exists(NewBackend, t).ret}
    /\ ws = [c \in Conns |-> "new"]
    /\ asm = [c \in Conns |-> NewAssembler]
    /\ nmsg = [c \in Conns |-> 0]
    /\ exit_reason = [c \in Conns |-> "none"]
    /\ last = NoLast
    /\ feed = IdleFeed

\* The server with several clients, each sending whole packets
Next ==
    \/ \E c \in Conns : Accept(c)
    \/ \E c \in Conns, msg \in FewMessages : ReadWsPacket(c, msg)
    \/ \E c \in Conns : PeerClose(c)
    \/ \E c \in Conns : Collect(c)
    \/ \E message \in AppMessages : PublisherPublish(message)

Spec == Init /\ [][Next]_vars

\* The server with one client that sends any of the messages
NextHandler ==
    \/ Accept("ws1")
    \/ \E msg \in WsMessages : ReadWsPacket("ws1", msg)
    \/ PeerClose("ws1")
    \/ Collect("ws1")
    \/ \E message \in AppMessages : PublisherPublish(message)

SpecHandler == Init /\ [][NextHandler]_vars

\* Two clients that send a PINGREQ whole or byte by byte, and a CONNECT
InterleavedMessages ==
    {Binary(<< 192 >>), Binary(<< 0 >>), Binary(PktPingreq), Binary(PktConnect)}

\* The tasks of two connections, each with its own MQTT object, take turns
NextInterleaved ==
    \/ \E c \in Conns : Accept(c)
    \/ \E c \in Conns, msg \in InterleavedMessages : ReadWsPacket(c, msg)

SpecInterleaved == Init /\ [][NextInterleaved]_vars

\* The server with one client that sends whole packets of every type, and a
\* second one that connects and subscribes to "b"
NextPackets ==
    \/ Accept("ws1")
    \/ \E msg \in PacketMessages : ReadWsPacket("ws1", msg)
    \/ Accept("ws2")
    \/ \E msg \in SubscriberMessages : ReadWsPacket("ws2", msg)

SpecPackets == Init /\ [][NextPackets]_vars

\* ------------------------------------------------------------------------
\* The backend called directly, in the task of an open connection
\* ------------------------------------------------------------------------

\* The text a direct publish sends
ApiText == << 104, 105 >>

ApiStep(op, c, arg, r) ==
    /\ mq' = r.mq
    /\ last' = [NoLast EXCEPT !.op = op, !.ws = c, !.arg = arg, !.ret = r.ret,
                              !.before = mq]

CallEnsureTopicExists(topic) ==
    /\ LET r == ensure_topic_exists(mq, topic)
       IN /\ ApiStep("ensure_topic_exists", "none", topic, r)
          /\ ensured' = IF r.ret THEN ensured \cup {topic} ELSE ensured
    /\ UNCHANGED << publishers, ws, asm, nmsg, exit_reason, feed >>

CallConnect(c, identifier) ==
    /\ ws[c] = "open"
    /\ ApiStep("connect", c, identifier, connect(mq, c, identifier))
    /\ UNCHANGED << publishers, ws, asm, nmsg, exit_reason, ensured, feed >>

CallSubscribe(c, topic) ==
    /\ ws[c] = "open"
    /\ ApiStep("subscribe", c, topic, subscribe(mq, c, topic))
    /\ UNCHANGED << publishers, ws, asm, nmsg, exit_reason, ensured, feed >>

CallUnsubscribe(c, topic) ==
    /\ ws[c] = "open"
    /\ ApiStep("unsubscribe", c, topic, unsubscribe(mq, c, topic))
    /\ UNCHANGED << publishers, ws, asm, nmsg, exit_reason, ensured, feed >>

CallDisconnect(c) ==
    /\ ws[c] = "open"
    /\ ApiStep("disconnect", c, << >>, disconnect(mq, c))
    /\ UNCHANGED << publishers, ws, asm, nmsg, exit_reason, ensured, feed >>

CallPublish(topic) ==
    /\ LET b == BackendPublish(mq, ws, topic, ApiText)
       IN last' = [NoLast EXCEPT !.op = "publish", !.arg = topic, !.err = b.err,
                                 !.sent = b.sent, !.failed = b.failed, !.before = mq]
    /\ UNCHANGED << mq, publishers, ws, asm, nmsg, exit_reason, ensured, feed >>

\* A fresh backend, no application, no connection
InitBroker ==
    /\ publishers = EmptyDict
    /\ mq = NewBackend
    /\ ensured = {}
    /\ ws = [c \in Conns |-> "new"]
    /\ asm = [c \in Conns |-> NewAssembler]
    /\ nmsg = [c \in Conns |-> 0]
    /\ exit_reason = [c \in Conns |-> "none"]
    /\ last = NoLast
    /\ feed = IdleFeed

NextBroker ==
    \/ \E c \in Conns : Accept(c)
    \/ \E c \in Conns : PeerClose(c)
    \/ \E c \in Conns : Collect(c)
    \/ \E topic \in ApiTopics : CallEnsureTopicExists(topic)
    \/ \E c \in Conns, identifier \in Identifiers : CallConnect(c, identifier)
    \/ \E c \in Conns, topic \in ApiTopics : CallSubscribe(c, topic)
    \/ \E c \in Conns, topic \in ApiTopics : CallUnsubscribe(c, topic)
    \/ \E c \in Conns : CallDisconnect(c)
    \/ \E topic \in ApiTopics : CallPublish(topic)

SpecBroker == InitBroker /\ [][NextBroker]_vars

\* The names ensure_topic_exists is called with when the backend is used by
\* one connection: those above, "//a", "/" followed by a bell, and ""
DeclaredNames == ApiTopics \cup {<< 47, 47, 97 >>, << 47, 7 >>, << >>}

\* The backend with one connection and topics declared under every name
NextTopics ==
    \/ Accept("ws1")
    \/ PeerClose("ws1")
    \/ Collect("ws1")
    \/ \E topic \in DeclaredNames : CallEnsureTopicExists(topic)
    \/ CallConnect("ws1", << 117 >>)
    \/ \E topic \in {TopicA, TopicSlashA} : CallSubscribe("ws1", topic)
    \/ \E topic \in {TopicA, TopicSlashA} : CallUnsubscribe("ws1", topic)
    \/ CallDisconnect("ws1")
    \/ \E topic \in {TopicA, TopicSlashA} : CallPublish(topic)

SpecTopics == InitBroker /\ [][NextTopics]_vars

\* ------------------------------------------------------------------------
\* The assembler on its own, fed a byte stream cut into fragments
\* ------------------------------------------------------------------------

\* A packet with the first byte given and a body of n bytes
AsmBody(n) == [i \in 1..n |-> i % 256]

AsmPacket(first, n) == << first >> \o encode_remaining_length(n) \o AsmBody(n)

\* Complete packets: remaining length 0, 2, 127 (one length byte), 128 and
\* MaxBody (two length bytes)
AsmPackets ==
    {AsmPacket(192, 0), AsmPacket(64, 2), AsmPacket(48, 127), AsmPacket(48, 128),
     AsmPacket(48, MaxBody)}

\* Two complete packets back to back
AsmPairs == {AsmPacket(64, 2) \o AsmPacket(192, 0), AsmPacket(48, 128) \o AsmPacket(64, 2)}

\* The offset of the variable header of the complete packet p: past the first
\* byte and the bytes of the remaining length, the last of which is below 128
HeaderOffset(p) == CHOOSE i \in 2..5 : p[i] < 128 /\ \A j \in 2..(i - 1) : p[j] >= 128

\* One call of append_fragment with the next k bytes of the stream
Feed(k) ==
    /\ feed.err = "none"
    /\ k \in 1..Len(feed.rest)
    /\ LET r == append_fragment(feed.asm, SubSeq(feed.rest, 1, k))
       IN feed' = [feed EXCEPT
                     !.asm = r.asm,
                     !.rest = SubSeq(feed.rest, k + 1, Len(feed.rest)),
                     !.returned = IF r.packet # NoPacket THEN Append(@, r.packet) ELSE @,
                     !.ret = r.packet,
                     !.err = r.err]
    /\ UNCHANGED << mq, publishers, ws, asm, nmsg, exit_reason, ensured, last >>

InitAsm ==
    /\ publishers = EmptyDict
    /\ mq = NewBackend
    /\ ensured = {}
    /\ ws = [c \in Conns |-> "new"]
    /\ asm = [c \in Conns |-> NewAssembler]
    /\ nmsg = [c \in Conns |-> 0]
    /\ exit_reason = [c \in Conns |-> "none"]
    /\ last = NoLast
    /\ \E s \in AsmPackets \cup AsmPairs : feed = [IdleFeed EXCEPT !.stream = s, !.rest = s]

NextAsm == \E k \in 1..(2 * MaxBody + 10) : Feed(k)

SpecAsm == InitAsm /\ [][NextAsm]_vars

\* ------------------------------------------------------------------------
\* The remaining length alone: a length is encoded, the bytes are decoded
\* ------------------------------------------------------------------------

\* The lengths: the small ones and those around the changes of size
Lengths ==
    0..MaxLength
    \cup {16383, 16384, 16385, 2097151, 2097152, 2097153, 268435454, 268435455}

\* decode_remaining_length on what encode_remaining_length returned
Decoded(length, encoded) ==
    last' = [NoLast EXCEPT !.op = "remaining_length", !.arg = length,
                           !.ret = [encoded |-> encoded,
                                    decoded |-> decode_remaining_length(encoded)]]

RoundTrip ==
    /\ last.op = "length"
    /\ Decoded(last.arg, encode_remaining_length(last.arg))
    /\ UNCHANGED << mq, publishers, ws, asm, nmsg, exit_reason, ensured, feed >>

InitLength ==
    /\ publishers = EmptyDict
    /\ mq = NewBackend
    /\ ensured = {}
    /\ ws = [c \in Conns |-> "new"]
    /\ asm = [c \in Conns |-> NewAssembler]
    /\ nmsg = [c \in Conns |-> 0]
    /\ exit_reason = [c \in Conns |-> "none"]
    /\ feed = IdleFeed
    /\ \E length \in Lengths : last = [NoLast EXCEPT !.op = "length", !.arg = length]

NextLength == RoundTrip

SpecLength == InitLength /\ [][NextLength]_vars

\* ------------------------------------------------------------------------
\* The codec alone: bytes are decoded as a remaining length, a list of
\* return codes is made a SUBACK
\* ------------------------------------------------------------------------

\* The bytes the sequences are made of: the ends of both halves of a byte
ProbeBytes == {0, 1, 127, 128, 255}

ByteStrings == UNION {[1..n -> ProbeBytes] : n \in 0..MaxBytes}

\* The entries of the lists: the QoS levels, values above them, FAILURE
ProbeLevels == {0, 1, 2, 3, 4, 128, 255}

QosLists == UNION {[1..n -> ProbeLevels] : n \in 1..MaxQosLevels}

DecodeBytes ==
    /\ last.op = "bytes"
    /\ last' = [NoLast EXCEPT !.op = "decode_remaining_length", !.arg = last.arg,
                              !.ret = decode_remaining_length(last.arg)]
    /\ UNCHANGED << mq, publishers, ws, asm, nmsg, exit_reason, ensured, feed >>

\* create_mqtt_suback_packet(1, qos_levels)
Suback ==
    /\ last.op = "qos_levels"
    /\ last' = [NoLast EXCEPT !.op = "create_mqtt_suback_packet", !.arg = last.arg,
                              !.ret = create_mqtt_suback_packet(1, last.arg)]
    /\ UNCHANGED << mq, publishers, ws, asm, nmsg, exit_reason, ensured, feed >>

InitCodec ==
    /\ publishers = EmptyDict
    /\ mq = NewBackend
    /\ ensured = {}
    /\ ws = [c \in Conns |-> "new"]
    /\ asm = [c \in Conns |-> NewAssembler]
    /\ nmsg = [c \in Conns |-> 0]
    /\ exit_reason = [c \in Conns |-> "none"]
    /\ feed = IdleFeed
    /\ \/ \E data \in ByteStrings : last = [NoLast EXCEPT !.op = "bytes", !.arg = data]
       \/ \E qos_levels \in QosLists :
             last = [NoLast EXCEPT !.op = "qos_levels", !.arg = qos_levels]

NextCodec == DecodeBytes \/ Suback

SpecCodec == InitCodec /\ [][NextCodec]_vars

\* ------------------------------------------------------------------------
\* The fan-out of the backend step by step: publish and
\* notify_local_subscribers await asyncio.gather(...) of one delivery per
\* subscriber.  gather has the deliveries run as tasks; its caller goes on
\* when all of them are done or, return_exceptions being left False, as soon
\* as one of them raised, the others then still running.
\* ------------------------------------------------------------------------

\* The local callbacks of the topic "b"
Callbacks == {"on_b", "log_b"}

\* MemoryMQBackend.publish(topic, payload) up to its await: one send_bytes
\* per subscriber of the topic
StartPublish(topic) ==
    /\ last.op = "init"
    /\ last' = [op |-> "publish", arg |-> topic, pending |-> PublishTargets(mq, topic),
                done |-> {}, failed |-> {}, caller |-> "waiting"]
    /\ UNCHANGED << mq, publishers, ws, asm, nmsg, exit_reason, ensured, feed >>

\* MemoryMQBackend.notify_local_subscribers(topic, message) up to its await:
\* one call per callback of the topic
StartNotify(topic) ==
    /\ last.op = "init"
    /\ last' = [op |-> "notify_local_subscribers", arg |-> topic,
                pending |-> LocalTargets(mq, topic),
                done |-> {}, failed |-> {}, caller |-> "waiting"]
    /\ UNCHANGED << mq, publishers, ws, asm, nmsg, exit_reason, ensured, feed >>

\* The delivery to the subscriber t finishes: send_bytes raises on a closed
\* WebSocket and returns on an open one, a callback does either
Deliver(t, ok) ==
    /\ last.op \in {"publish", "notify_local_subscribers"}
    /\ t \in last.pending
    /\ last.op = "publish" => (ok <=> ws[t] = "open")
    /\ last' = [last EXCEPT !.pending = @ \ {t},
                            !.done = IF ok THEN @ \cup {t} ELSE @,
                            !.failed = IF ok THEN @ ELSE @ \cup {t}]
    /\ UNCHANGED << mq, publishers, ws, asm, nmsg, exit_reason, ensured, feed >>

\* The await of gather ends: the operation returns to its caller, or raises
\* the exception of a delivery
GatherReturns ==
    /\ last.op \in {"publish", "notify_local_subscribers"}
    /\ last.caller = "waiting"
    /\ last.failed # {} \/ last.pending = {}
    /\ last' = [last EXCEPT !.caller = IF last.failed # {} THEN "raised" ELSE "returned"]
    /\ UNCHANGED << mq, publishers, ws, asm, nmsg, exit_reason, ensured, feed >>

\* A backend with connections subscribed to "a", open or closed, and
\* callbacks registered for "b"
InitGather ==
    /\ publishers = EmptyDict
    /\ ensured = {}
    /\ asm = [c \in Conns |-> NewAssembler]
    /\ nmsg = [c \in Conns |-> 0]
    /\ exit_reason = [c \in Conns |-> "none"]
    /\ feed = IdleFeed
    /\ last = NoLast
    /\ ws \in [Conns -> {"open", "closed"}]
    /\ \E S \in SUBSET Conns, L \in SUBSET Callbacks :
          mq = [NewBackend EXCEPT
                   !.identifier_by_ws = [c \in Conns |-> << 117 >>],
                   !.available_topics = {TopicA, TopicB},
                   !.topics = IF S = {} THEN EmptyDict ELSE [t \in {TopicA} |-> S],
                   !.local_subscribers = IF L = {} THEN EmptyDict
                                         ELSE [t \in {TopicB} |-> L]]

NextGather ==
    \/ \E topic \in {TopicA, TopicB} : StartPublish(topic)
    \/ \E topic \in {TopicA, TopicB} : StartNotify(topic)
    \/ \E t \in Conns \cup Callbacks, ok \in BOOLEAN : Deliver(t, ok)
    \/ GatherReturns

SpecGather == InitGather /\ [][NextGather]_vars

\* ------------------------------------------------------------------------
\* A publish whose deliveries are interleaved with the calls other tasks make
\* on the backend.  subscribe, unsubscribe and disconnect hold no await: each
\* runs from its first line to its return without another task in between.
\* ------------------------------------------------------------------------

\* MemoryMQBackend.publish(topic, payload) up to its await: the generator
\* handed to gather is consumed at once, one send_bytes per member of the
\* subscriber set at that moment.  steady is the set of connections
\* subscribed to the topic ever since, log the calls made on the backend since.
StartFanOut(topic) ==
    /\ last.op = "init"
    /\ last' = [op |-> "publish", arg |-> topic, pending |-> PublishTargets(mq, topic),
                done |-> {}, failed |-> {}, caller |-> "waiting",
                steady |-> PublishTargets(mq, topic), log |-> << >>, before |-> mq]
    /\ UNCHANGED << mq, publishers, ws, asm, nmsg, exit_reason, ensured, feed >>

\* The task of the open connection c calls the backend while deliveries of
\* the publish are pending
Meanwhile(c, op, topic, r) ==
    /\ last.op = "publish"
    /\ last.pending # {}
    /\ Len(last.log) < MaxMutations
    /\ ws[c] = "open"
    /\ mq' = r.mq
    /\ last' = [last EXCEPT !.log = Append(@, [op |-> op, ws |-> c, topic |-> topic]),
                            !.steady = @ \cap PublishTargets(r.mq, last.arg)]
    /\ UNCHANGED << publishers, ws, asm, nmsg, exit_reason, ensured, feed >>

NextFanOut ==
    \/ \E topic \in {TopicA, TopicB} : StartFanOut(topic)
    \/ \E c \in Conns, topic \in {TopicA, TopicB} :
          Meanwhile(c, "subscribe", topic, subscribe(mq, c, topic))
    \/ \E c \in Conns, topic \in {TopicA, TopicB} :
          Meanwhile(c, "unsubscribe", topic, unsubscribe(mq, c, topic))
    \/ \E c \in Conns : Meanwhile(c, "disconnect", << >>, disconnect(mq, c))
    \/ \E t \in Conns, ok \in BOOLEAN : Deliver(t, ok)
    \/ GatherReturns

SpecFanOut == InitGather /\ [][NextFanOut]_vars

\* ------------------------------------------------------------------------
\* The setup of the WSApp: message types are bound to topics
\* ------------------------------------------------------------------------

\* The message types of the application
MsgTypes == {"Book", "Note"}

\* An add_publisher whose last binding wins
add_publisher_overwrites(pubs, topic, msg_type) ==
    [publishers |-> With(pubs, msg_type, topic), err |-> "none"]

\* WSApp.add_publisher(topic, msg_type) on the dict pubs: the dict after the
\* setdefault and the exception raised
add_publisher(pubs, topic, msg_type) ==
    [publishers |-> IF msg_type \in DOMAIN pubs THEN pubs ELSE With(pubs, msg_type, topic),
     err |-> IF Get(pubs, msg_type, topic) # topic THEN "ValueError" ELSE "none"]

AddedPublisher(topic, msg_type, r) ==
    /\ publishers' = r.publishers
    /\ last' = [NoLast EXCEPT !.op = "add_publisher",
                              !.arg = [topic |-> topic, msg_type |-> msg_type],
                              !.err = r.err]

AddPublisher(topic, msg_type) ==
    /\ AddedPublisher(topic, msg_type, add_publisher(publishers, topic, msg_type))
    /\ UNCHANGED << mq, ws, asm, nmsg, exit_reason, ensured, feed >>

InitSetup ==
    /\ publishers = EmptyDict
    /\ mq = NewBackend
    /\ ensured = {}
    /\ ws = [c \in Conns |-> "new"]
    /\ asm = [c \in Conns |-> NewAssembler]
    /\ nmsg = [c \in Conns |-> 0]
    /\ exit_reason = [c \in Conns |-> "none"]
    /\ feed = IdleFeed
    /\ last = NoLast

NextSetup == \E topic \in ApiTopics, msg_type \in MsgTypes : AddPublisher(topic, msg_type)

SpecSetup == InitSetup /\ [][NextSetup]_vars

\* ------------------------------------------------------------------------
\* Properties
\* ------------------------------------------------------------------------

\* C1: on a new connection CONNECT is answered with CONNACK(0); a SUBSCRIBE
\* with packet id p for a declared topic T bound to a message type, at QoS 0,
\* is answered with SUBACK(p, [0]); every publish of a message of the bound
\* type made after it is delivered to the client as exactly one PUBLISH
\* (QoS 0, retain and dup clear) with topic T and the serialized message.
DecodedPublish(pkt) ==
    analyze_mqtt_publish_packet(pkt[1], SliceFrom(pkt, HeaderOffset(pkt)))

BoundTopics == {publishers[t] : t \in DOMAIN publishers} \cap mq.available_topics

C1_ConnectSubscribePublish ==
    \A c \in Conns :
        /\ (/\ last.op = "read_ws_packet" /\ last.ws = c /\ nmsg[c] = 1
            /\ last.packets # << >>
            /\ last.packets[1].packet \in {PktConnect, PktConnectUser})
           => last.sent[c] = << create_mqtt_connack_packet(FALSE, CONNECTION_ACCEPTED) >>
        /\ \A T \in BoundTopics, p \in 1..3 :
              (/\ last.op = "read_ws_packet" /\ last.ws = c
               /\ c \in DOMAIN mq.identifier_by_ws
               /\ last.packets # << >>
               /\ last.packets[1].packet = PktSubscribe(p, T))
              => last.sent[c] = << create_mqtt_suback_packet(p, << AT_MOST_ONCE >>).bytes >>
        /\ \A T \in BoundTopics :
              (/\ last.op = "publish" /\ last.arg \in AppMessages
               /\ last.arg.type \in DOMAIN publishers /\ publishers[last.arg.type] = T
               /\ ws[c] = "open" /\ c \in Get(mq.topics, T, {}))
              => /\ Len(last.sent[c]) = 1
                 /\ DecodedPublish(last.sent[c][1]) =
                        [err |-> "none", topic_name |-> T, qos |-> 0, retain |-> FALSE,
                         dup |-> FALSE, payload |-> Utf8Encode(last.arg.json)]

\* C2: a complete packet cut in any way into fragments and fed to a fresh
\* assembler comes back as exactly one packet, on the last fragment, with the
\* bytes and the header offset of the original; no earlier call returns a
\* packet and none raises.
C2_OnePacketOnLastFragment ==
    feed.stream \in AsmPackets =>
        /\ feed.err = "none"
        /\ feed.rest # << >> => feed.returned = << >>
        /\ feed.rest = << >> =>
              /\ feed.ret = MQTTPacket(feed.stream, HeaderOffset(feed.stream))
              /\ feed.returned = << feed.ret >>

\* C3: when one fragment holds two complete packets back to back, both are
\* handed to the protocol handler, in order, no byte is lost and nothing
\* waits for a further fragment.
C3_TwoPacketsInOneFragment ==
    \A p \in PacketPairs :
        (/\ last.op = "read_ws_packet"
         /\ last.arg = Binary(p[1] \o p[2])
         /\ nmsg[last.ws] = 1)
        => /\ Len(last.packets) = 2
           /\ last.packets[1].packet = p[1]
           /\ last.packets[2].packet = p[2]
           /\ asm[last.ws].buffer = << >>

\* C4: a connection whose transport closed without a DISCONNECT packet is in
\* no topic's subscriber set, and no publish sends to it.
ClosedWithoutDisconnect(c) ==
    ws[c] \in {"closed", "collected"} /\ exit_reason[c] # "CloseWSConnection"

C4_ClosedConnectionUnsubscribed ==
    \A c \in Conns :
        ClosedWithoutDisconnect(c) =>
            /\ \A t \in DOMAIN mq.topics : c \notin mq.topics[t]
            /\ (last.op = "publish" => c \notin last.failed)

\* C5: on every exit path of websocket_handler the backend's disconnect() is
\* executed for the connection before the task exits.
C5_DisconnectOnEveryExit ==
    last.exited => \E i \in DOMAIN last.calls : last.calls[i].op = "disconnect"

\* C6: a CONNECT whose protocol name is not "MQTT" or whose protocol level is
\* not 4 is answered with CONNACK(0x01); the backend's connect is not called
\* and no other error occurs.
IsBadVersionConnect(p) ==
    /\ packet_type(p) = 1
    /\ LET v == variable_header_and_payload(p)
       IN Slice(v, 2, 6) # MagicMQTT \/ (Len(v) >= 7 /\ v[7] # 4)

C6_BadVersionAnsweredWithConnack ==
    (/\ last.op = "read_ws_packet"
     /\ last.packets # << >>
     /\ IsBadVersionConnect(last.packets[1]))
    => /\ last.sent[last.ws] =
             << create_mqtt_connack_packet(FALSE, UNACCEPTABLE_PROTOCOL_VERSION) >>
       /\ last.calls = << >>
       /\ last.err = "none"

\* C7: subscribe fails and changes nothing when the caller has not connected
\* or the topic was never declared; for a connected caller and a topic for
\* which ensure_topic_exists has returned true it succeeds and the caller is a
\* subscriber; a second identical subscribe succeeds and changes nothing, and
\* a publish sends one copy to the connection.
C7_Subscribe ==
    /\ last.op = "subscribe" =>
          LET c == last.ws
              t == last.arg
              b == last.before
          IN /\ (c \notin DOMAIN b.identifier_by_ws
                   \/ t \notin {RemovePrefixSlash(e) : e \in ensured})
                => (last.ret = FALSE /\ mq = b)
             /\ (c \in DOMAIN b.identifier_by_ws /\ t \in ensured)
                => (last.ret = TRUE /\ c \in Get(mq.topics, t, {}))
             /\ (last.ret = TRUE /\ c \in Get(b.topics, t, {})) => mq = b
    /\ last.op = "publish" =>
          \A c \in Get(mq.topics, last.arg, {}) :
              ws[c] = "open" => Len(last.sent[c]) = 1

\* C8: unsubscribe fails and changes nothing when the caller is not a
\* subscriber of the topic; otherwise it succeeds, the caller is no subscriber
\* any more, the topic's entry is deleted exactly when its set became empty,
\* and the topic stays declared, so that a subscribe to it succeeds.
C8_Unsubscribe ==
    last.op = "unsubscribe" =>
        LET c == last.ws
            t == last.arg
            b == last.before
        IN IF c \notin Get(b.topics, t, {})
           THEN last.ret = FALSE /\ mq = b
           ELSE /\ last.ret = TRUE
                /\ c \notin Get(mq.topics, t, {})
                /\ (t \notin DOMAIN mq.topics) <=> (b.topics[t] \ {c} = {})
                /\ Get(mq.topics, t, {}) = b.topics[t] \ {c}
                /\ mq.available_topics = b.available_topics
                /\ t \in mq.available_topics
                /\ subscribe(mq, c, t).ret = TRUE

C8_Witness ==
    /\ last.op = "unsubscribe" /\ last.ret = TRUE
    /\ last.arg \notin DOMAIN mq.topics
    /\ last.ws \in last.before.topics[last.arg]

\* C9: disconnect always returns true; after it the caller has no identity
\* and is in no topic's subscriber set; for a caller without identity it
\* changes nothing.
C9_Disconnect ==
    last.op = "disconnect" =>
        /\ last.ret = TRUE
        /\ last.ws \notin DOMAIN mq.identifier_by_ws
        /\ \A t \in DOMAIN mq.topics : last.ws \notin mq.topics[t]
        /\ (last.ws \notin DOMAIN last.before.identifier_by_ws => mq = last.before)

C9_Witness ==
    /\ last.op = "disconnect"
    /\ last.ws \in DOMAIN last.before.identifier_by_ws
    /\ Cardinality({t \in DOMAIN last.before.topics :
                      last.ws \in last.before.topics[t]}) = 2

\* C10: a CONNECT that reaches the backend on a connection that already has
\* an identity is rejected: connect returns false, identity and subscriptions
\* stay as they were, and the CONNACK sent carries a non-zero return code.
IsDecodedConnect(p) ==
    /\ packet_type(p) = 1
    /\ analyze_mqtt_connect_packet(variable_header_and_payload(p)).err = "none"

C10_SecondConnectRejected ==
    [][\A c \in Conns :
          (/\ c \in DOMAIN mq.identifier_by_ws
           /\ last'.op = "read_ws_packet" /\ last'.ws = c
           /\ last'.packets # << >>
           /\ IsDecodedConnect(last'.packets[1]))
          => /\ Len(last'.calls) = 1
             /\ last'.calls[1].op = "connect"
             /\ last'.calls[1].ret = FALSE
             /\ mq' = mq
             /\ Len(last'.sent[c]) = 1
             /\ SubSeq(last'.sent[c][1], 1, 3) = << 32, 2, 0 >>
             /\ last'.sent[c][1][4] # CONNECTION_ACCEPTED]_vars

C10_Witness ==
    /\ last.op = "read_ws_packet"
    /\ Len(last.calls) = 1 /\ last.calls[1].op = "connect" /\ last.calls[1].ret = FALSE
    /\ last.packets[1].packet = PktConnectUser
    /\ mq.identifier_by_ws[last.ws] = << >>
    /\ last.ws \in Get(mq.topics, TopicA, {})


\* The SUBACK s as a client reads it: first byte 0x90, then the remaining
\* length, then as many bytes as it says: the packet id and the return codes
ClientReadsSuback(s, d, packet_id, codes) ==
    /\ s[1] = 144
    /\ d.err = "none"
    /\ d.value = Len(s) - 1 - d.bytes_used
    /\ SliceFrom(s, 1 + d.bytes_used) = ToBytes2(packet_id) \o codes

\* The step answered the SUBSCRIBE q of the connection c as it should
SubscribeAnswered(q, c) ==
    /\ last.err = "none" /\ ~last.exited
    /\ Len(last.calls) = Len(q.subscriptions)
    /\ \A i \in 1..Len(q.subscriptions) :
          /\ last.calls[i].op = "subscribe"
          /\ last.calls[i].arg = q.subscriptions[i].topic
          /\ last.calls[i].ret =>
                c \in Get(mq.topics, RemovePrefixSlash(q.subscriptions[i].topic), {})
    /\ Len(last.sent[c]) = 1
    /\ ClientReadsSuback(last.sent[c][1],
                         decode_remaining_length(SliceFrom(last.sent[c][1], 1)),
                         q.packet_id,
                         [i \in 1..Len(q.subscriptions) |->
                             IF last.calls[i].ret THEN 0 ELSE 128])
    /\ \A o \in Conns \ {c} : last.sent[o] = << >>

\* C11: a SUBSCRIBE with packet id p and topics t1..tn is answered with
\* exactly one SUBACK carrying p and n return codes, code i being 0 when
\* subscribe(ti) succeeded and 128 when it failed, in the order of the topics;
\* a topic that failed neither undoes nor prevents the other subscriptions.
C11_SubackPerTopic ==
    \A q \in SubscribeRequests :
        (/\ last.op = "read_ws_packet"
         /\ last.arg = Binary(create_mqtt_subscribe_packet(q.packet_id, q.subscriptions)))
        => SubscribeAnswered(q, last.ws)

\* C12: a SUBSCRIBE without a topic/QoS pair is a protocol violation: no
\* SUBACK is sent, subscribe is not called, the backend's state does not
\* change and the connection is closed.
C12_EmptySubscribeRejected ==
    [][\A d \in EmptySubscribes :
          (/\ last'.op = "read_ws_packet"
           /\ last'.arg = Binary(d)
           /\ asm[last'.ws] = NewAssembler)
          => /\ last'.err = "ProtocolViolation"
             /\ last'.packets # << >>
             /\ last'.sent = NoSent
             /\ last'.calls = << >>
             /\ mq' = mq
             /\ ws'[last'.ws] = "closed"]_vars

\* A client that is connected and subscribed to "a" sent the empty SUBSCRIBE
C12_Witness ==
    /\ last.op = "read_ws_packet"
    /\ last.arg = Binary(PktSubscribeEmpty)
    /\ last.ws \in DOMAIN mq.identifier_by_ws
    /\ last.ws \in Get(mq.topics, TopicA, {})
    /\ ws[last.ws] = "closed"

\* C13: an UNSUBSCRIBE with packet id p is answered with exactly one UNSUBACK
\* carrying p, also when unsubscribe fails for some or all of its topics; a
\* failure does not close the connection, and unsubscribe is called for every
\* topic of the packet, in order: afterwards the client is subscribed to none
\* of them, and its other subscriptions are as before.
C13_UnsubscribeAlwaysAcked ==
    [][\A q \in UnsubscribeRequests :
          (/\ last'.op = "read_ws_packet"
           /\ last'.arg = Binary(PktUnsubscribeAll(q.packet_id, q.topics))
           /\ asm[last'.ws] = NewAssembler)
          => /\ last'.err = "none"
             /\ ~last'.exited
             /\ ws'[last'.ws] = "open"
             /\ last'.sent = [NoSent EXCEPT ![last'.ws] =
                                 << << 176, 2 >> \o ToBytes2(q.packet_id) >>]
             /\ Len(last'.calls) = Len(q.topics)
             /\ \A i \in 1..Len(q.topics) :
                   /\ last'.calls[i] =
                         Call("unsubscribe", q.topics[i],
                              last'.ws \in Get(mq.topics, q.topics[i], {}))
                   /\ last'.ws \notin Get(mq'.topics, q.topics[i], {})
             /\ \A t \in (DOMAIN mq.topics \cup DOMAIN mq'.topics) :
                   (\A i \in 1..Len(q.topics) : q.topics[i] # t)
                   => Get(mq'.topics, t, {}) = Get(mq.topics, t, {})]_vars

\* The first topic of an UNSUBSCRIBE failed and the two after it succeeded
C13_Witness ==
    /\ last.op = "read_ws_packet"
    /\ Len(last.calls) = 3
    /\ last.calls[1] = Call("unsubscribe", TopicZ, FALSE)
    /\ last.calls[2] = Call("unsubscribe", TopicA, TRUE)
    /\ last.calls[3] = Call("unsubscribe", TopicB, TRUE)
    /\ ws[last.ws] = "open"
    /\ last.sent[last.ws] = << << 176, 2, 0, 7 >> >>

\* C14: a packet of a type a client must never send (CONNACK, PUBREL, SUBACK,
\* UNSUBACK, PINGRESP, type code 0 or 15) is answered with nothing, no backend
\* operation is called, the transport is closed, and no later message of a
\* connection that is not open is handled.
C14_ForbiddenTypeCloses ==
    [][/\ \A d \in ForbiddenPackets :
             (/\ last'.op = "read_ws_packet"
              /\ last'.arg = Binary(d)
              /\ asm[last'.ws] = NewAssembler)
             => /\ last'.err = "ProtocolViolation"
                /\ last'.packets # << >>
                /\ last'.sent = NoSent
                /\ last'.calls = << >>
                /\ last'.notified = {}
                /\ mq' = mq
                /\ last'.exited
                /\ ws'[last'.ws] = "closed"
       /\ \A c \in Conns :
             ws[c] \in {"closed", "collected"}
             => /\ ~(last'.op = "read_ws_packet" /\ last'.ws = c)
                /\ ws'[c] \in {"closed", "collected"}
                /\ nmsg'[c] = nmsg[c]
                /\ asm'[c] = asm[c]]_vars

\* A connected client sent a PUBREL when it could still send another message
C14_Witness ==
    /\ last.op = "read_ws_packet"
    /\ last.arg = Binary(<< 98, 2, 0, 1 >>)
    /\ last.ws \in DOMAIN mq.identifier_by_ws
    /\ ws[last.ws] = "closed"
    /\ nmsg[last.ws] < MaxMessages

\* C15: an inbound PUBLISH for the topic T with payload P has every local
\* callback registered for T called once with P and no callback of another
\* topic; nothing is sent back to the publishing client and nothing is sent to
\* the remote subscribers of T.
C15_InboundPublishLocalOnly ==
    \A q \in PublishRequests :
        (/\ last.op = "read_ws_packet"
         /\ last.arg = Binary(PktPublish(q.topic, q.payload, q.qos)))
        => /\ last.err = "none"
           /\ last.calls = << Call("notify_local_subscribers",
                                   << q.topic, q.payload >>, TRUE) >>
           /\ last.notified = IF q.topic \in DOMAIN AppSubscribers
                              THEN AppSubscribers[q.topic] ELSE {}
           /\ last.sent = NoSent
           /\ ws[last.ws] = "open"

\* A client published to "b", which has a local callback, while another
\* connection and the client itself were subscribed to "b"
C15_Witness ==
    /\ last.op = "read_ws_packet"
    /\ last.ws = "ws1"
    /\ last.arg = Binary(PktPublish(TopicB, ShortJson, 0))
    /\ last.notified = {"on_b"}
    /\ ws["ws2"] = "open"
    /\ Get(mq.topics, TopicB, {}) = {"ws1", "ws2"}

\* C16: for every topic and payload, also with a remaining length of 128 or
\* more, MQTT.publish has each remote subscriber of the topic receive exactly
\* the bytes of create_mqtt_publish_packet(topic, payload): the decode in
\* MQTT.publish and the encode in MemoryMQBackend.publish neither alter the
\* bytes nor fail.
C16_PublishedBytesIdentical ==
    (last.op = "publish" /\ last.arg.type \in DOMAIN publishers)
    => /\ last.err # "UnicodeDecodeError"
       /\ \A c \in PublishTargets(mq, publishers[last.arg.type]) :
             ws[c] = "open"
             => last.sent[c] = << create_mqtt_publish_packet(publishers[last.arg.type],
                                                             last.arg.json) >>

\* C17: when the send to one subscriber of a topic fails in a publish, because
\* its transport is closed, the packet is still sent to every other
\* subscriber of the topic, and the subscriber sets are after the call what
\* they were before it.
C17_FailedSendSparesOthers ==
    [][(/\ last'.op = "publish"
        /\ last'.arg.type \in DOMAIN publishers
        /\ last'.err # "UnicodeDecodeError"
        /\ \E c \in PublishTargets(mq, publishers[last'.arg.type]) : ws[c] # "open")
       => /\ mq' = mq
          /\ \A c \in PublishTargets(mq, publishers[last'.arg.type]) :
                ws[c] = "open"
                => last'.sent[c] = << create_mqtt_publish_packet(
                                          publishers[last'.arg.type], last'.arg.json) >>]_vars

\* A publish to a topic with one closed and one open subscriber
C17_Witness ==
    /\ last.op = "publish"
    /\ last.failed # {}
    /\ \E c \in Conns : /\ ws[c] = "open"
                        /\ c \in PublishTargets(mq, publishers[last.arg.type])
                        /\ Len(last.sent[c]) = 1

\* C18: for every n in 0..2^28-1, decode_remaining_length of
\* encode_remaining_length(n) is (n, k), k being the number of bytes of the
\* encoding, between 1 and 4; every byte but the last has the continuation
\* bit set, the last has it clear.
C18_RemainingLengthRoundTrip ==
    last.op = "remaining_length"
    => /\ last.ret.decoded = [err |-> "none", value |-> last.arg,
                              bytes_used |-> Len(last.ret.encoded)]
       /\ Len(last.ret.encoded) \in 1..4
       /\ \A i \in 1..(Len(last.ret.encoded) - 1) : last.ret.encoded[i] \in 128..255
       /\ last.ret.encoded[Len(last.ret.encoded)] \in 0..127

\* The largest length, of four bytes, went through both functions
C18_Witness ==
    /\ last.op = "remaining_length"
    /\ last.arg = 268435455
    /\ last.ret.encoded = << 255, 255, 255, 127 >>

\* C19: after any sequence of add_publisher calls each message type is bound
\* to one topic, that of its first binding: add_publisher(topic2, T) for a
\* type T bound to another topic raises and leaves every binding as it was;
\* binding T again to the topic it has is accepted and changes nothing.
C19_FirstBindingKept ==
    [][last'.op = "add_publisher"
       => /\ \A T \in DOMAIN publishers :
                T \in DOMAIN publishers' /\ publishers'[T] = publishers[T]
          /\ IF last'.arg.msg_type \notin DOMAIN publishers
             THEN /\ last'.err = "none"
                  /\ publishers' = With(publishers, last'.arg.msg_type, last'.arg.topic)
             ELSE /\ publishers' = publishers
                  /\ last'.err = IF publishers[last'.arg.msg_type] = last'.arg.topic
                                 THEN "none" ELSE "ValueError"]_vars

\* A type bound to "a" was refused the topic "b" while another type is bound
C19_Witness ==
    /\ last.op = "add_publisher"
    /\ last.err = "ValueError"
    /\ last.arg = [topic |-> TopicB, msg_type |-> "Book"]
    /\ publishers = [t \in MsgTypes |-> IF t = "Book" THEN TopicA ELSE TopicSlashA]

\* C20: Publisher.publish of a message whose type is bound to no topic raises
\* ValueError at once: nothing is encoded, the backend's publish is not called
\* and no subscriber receives anything; for a bound type the packet is
\* published to the topic bound to the type and to no other.
C20_PublishToBoundTopic ==
    last.op = "publish"
    => IF last.arg.type \notin DOMAIN publishers
       THEN /\ last.err = "ValueError"
            /\ last.calls = << >>
            /\ last.sent = NoSent
       ELSE /\ last.calls = << Call("publish", publishers[last.arg.type], TRUE) >>
            /\ \A c \in Conns :
                  last.sent[c] # << >>
                  => c \in PublishTargets(mq, publishers[last.arg.type])

\* C21: on a DISCONNECT packet the server sends no response, stops reading
\* from the connection and closes the transport; no message that arrives
\* later on the connection is handled.
C21_DisconnectCloses ==
    [][/\ (/\ last'.op = "read_ws_packet"
           /\ last'.arg = Binary(PktDisconnect)
           /\ asm[last'.ws] = NewAssembler)
          => /\ last'.err = "CloseWSConnection"
             /\ last'.packets # << >>
             /\ last'.sent = NoSent
             /\ last'.exited
             /\ ws'[last'.ws] = "closed"
       /\ \A c \in Conns :
             exit_reason[c] = "CloseWSConnection"
             => /\ ws[c] \in {"closed", "collected"}
                /\ ~(last'.op = "read_ws_packet" /\ last'.ws = c)
                /\ ws'[c] \in {"closed", "collected"}
                /\ nmsg'[c] = nmsg[c]
                /\ exit_reason'[c] = "CloseWSConnection"]_vars

\* A connected client sent DISCONNECT when it could still send a message,
\* and the other connection went on
C21_Witness ==
    /\ exit_reason["ws1"] = "CloseWSConnection"
    /\ ws["ws1"] = "closed"
    /\ nmsg["ws1"] < MaxMessages
    /\ last.op = "read_ws_packet" /\ last.ws = "ws2"

\* The name without its first character when that is "/"
WithoutOneSlash(name) ==
    IF name # << >> /\ name[1] = 47 THEN SubSeq(name, 2, Len(name)) ELSE name

\* C22: ensure_topic_exists(topic) strips one leading "/"; when the rest
\* holds a non-printable character it returns false and the declared topics
\* are as before; otherwise it returns true and the stripped name is declared.
\* Declaring a topic twice changes nothing, and no operation of the backend
\* removes a declared topic.
C22_EnsureTopicExists ==
    [][/\ last'.op = "ensure_topic_exists"
          => IF \E i \in 1..Len(WithoutOneSlash(last'.arg)) :
                   WithoutOneSlash(last'.arg)[i] \notin 32..126
             THEN last'.ret = FALSE /\ mq' = mq
             ELSE /\ last'.ret = TRUE
                  /\ mq' = [mq EXCEPT !.available_topics =
                                         @ \cup {WithoutOneSlash(last'.arg)}]
                  /\ WithoutOneSlash(last'.arg) \in mq.available_topics => mq' = mq
       /\ mq.available_topics \subseteq mq'.available_topics]_vars

\* "//a" was declared a second time, "a" never, and the connection is
\* subscribed to "/a"
C22_Witness ==
    /\ last.op = "ensure_topic_exists"
    /\ last.arg = << 47, 47, 97 >>
    /\ last.ret = TRUE
    /\ last.before = mq
    /\ TopicSlashA \in mq.available_topics
    /\ TopicA \notin mq.available_topics
    /\ Get(mq.topics, TopicSlashA, {}) = {"ws1"}

\* C23: a PUBACK, PUBREC or PUBCOMP received by the server is accepted and
\* ignored: no response is sent, no backend operation is called, identities
\* and subscriptions are unchanged, and the connection stays open.
C23_AcksIgnored ==
    [][\A d \in AckPackets :
          (/\ last'.op = "read_ws_packet"
           /\ last'.arg = Binary(d)
           /\ asm[last'.ws] = NewAssembler)
          => /\ last'.err = "none"
             /\ last'.packets # << >>
             /\ last'.sent = NoSent
             /\ last'.calls = << >>
             /\ last'.notified = {}
             /\ mq' = mq
             /\ ~last'.exited
             /\ ws'[last'.ws] = "open"
             /\ asm'[last'.ws] = NewAssembler]_vars

\* A connected and subscribed client sent a PUBREC
C23_Witness ==
    /\ last.op = "read_ws_packet"
    /\ last.arg = Binary(<< 80, 2, 0, 1 >>)
    /\ last.ws \in Get(mq.topics, TopicA, {})
    /\ ws[last.ws] = "open"

\* C24: a PINGREQ is answered with exactly one PINGRESP, the bytes D0 00; no
\* backend operation is called, identities and subscriptions are unchanged.
C24_PingreqAnswered ==
    [][(/\ last'.op = "read_ws_packet"
        /\ last'.arg = Binary(<< 192, 0 >>)
        /\ asm[last'.ws] = NewAssembler)
       => /\ last'.err = "none"
          /\ last'.sent = [NoSent EXCEPT ![last'.ws] = << << 208, 0 >> >>]
          /\ last'.calls = << >>
          /\ last'.notified = {}
          /\ mq' = mq
          /\ ws'[last'.ws] = "open"]_vars

\* A client that never connected sent a PINGREQ while the other connection
\* was subscribed
C24_Witness ==
    /\ last.op = "read_ws_packet"
    /\ last.ws = "ws1"
    /\ last.arg = Binary(PktPingreq)
    /\ "ws1" \notin DOMAIN mq.identifier_by_ws
    /\ Get(mq.topics, TopicB, {}) = {"ws2"}
    /\ last.sent["ws1"] = << create_mqtt_pingresp_packet >>

\* C25: when the backend declines a CONNECT, the handler sends a CONNACK with
\* a return code other than 0 and the connection is closed: no later packet
\* of the connection is handled.
C25_RefusedConnectCloses ==
    [][(/\ last'.op = "read_ws_packet"
        /\ Len(last'.calls) = 1
        /\ last'.calls[1].op = "connect"
        /\ ~last'.calls[1].ret)
       => /\ Len(last'.sent[last'.ws]) = 1
          /\ Len(last'.sent[last'.ws][1]) = 4
          /\ SubSeq(last'.sent[last'.ws][1], 1, 3) = << 32, 2, 0 >>
          /\ last'.sent[last'.ws][1][4] # 0
          /\ last'.exited
          /\ ws'[last'.ws] = "closed"]_vars

\* C26: a packet with a truncated field (a length prefix that announces more
\* bytes than the packet holds, in CONNECT, PUBLISH, SUBSCRIBE or
\* UNSUBSCRIBE) is a decode error fatal to the connection: no backend
\* operation is called with data of the packet, no response is sent and the
\* connection is closed.
C26_TruncatedFieldFatal ==
    \A d \in TruncatedPackets :
        (last.op = "read_ws_packet" /\ last.arg = Binary(d))
        => /\ last.err # "none"
           /\ last.calls = << >>
           /\ last.notified = {}
           /\ last.sent = NoSent
           /\ last.exited
           /\ ws[last.ws] = "closed"

\* C27: create_mqtt_suback_packet encodes every value above 2 of its list as
\* the failure code 128 and the values 0, 1 and 2 as themselves: a payload
\* byte of a SUBACK is one of 0, 1, 2, 128.
C27_SubackCodes ==
    last.op = "create_mqtt_suback_packet"
    => /\ last.ret.err = "none"
       /\ SliceFrom(last.ret.bytes, 4) =
             [i \in 1..Len(last.arg) |-> IF last.arg[i] > 2 THEN 128 ELSE last.arg[i]]

\* The index of the first byte of s without continuation bit, 0 without one
Terminator(s) ==
    IF \E k \in 1..Len(s) : s[k] < 128
    THEN CHOOSE k \in 1..Len(s) : s[k] < 128 /\ \A i \in 1..(k - 1) : s[i] >= 128
    ELSE 0

\* The value of the first k bytes of s, k at most 4, least significant first
ValueOf(s, k) ==
    (IF k >= 1 THEN s[1] % 128 ELSE 0)
    + (IF k >= 2 THEN (s[2] % 128) * 128 ELSE 0)
    + (IF k >= 3 THEN (s[3] % 128) * 16384 ELSE 0)
    + (IF k >= 4 THEN (s[4] % 128) * 2097152 ELSE 0)

\* C28: decode_remaining_length rejects the byte sequences whose first four
\* bytes all have the continuation bit set, and no other: a sequence whose
\* terminating byte is among its first four decodes to a value in 0..2^28-1
\* and the number of bytes consumed.
C28_DecodeRejectsFiveBytes ==
    last.op = "decode_remaining_length"
    => IF Len(last.arg) >= 4 /\ \A i \in 1..4 : last.arg[i] >= 128
       THEN last.ret.err = "ValueError"
       ELSE /\ last.ret.err = "none"
            /\ Terminator(last.arg) # 0
               => /\ Terminator(last.arg) \in 1..4
                  /\ last.ret.bytes_used = Terminator(last.arg)
                  /\ last.ret.value = ValueOf(last.arg, Terminator(last.arg))
                  /\ last.ret.value \in 0..268435455

\* Four bytes with the continuation bit set were rejected
C28_Witness ==
    /\ last.op = "decode_remaining_length"
    /\ last.arg = << 128, 255, 128, 255 >>
    /\ last.ret.err = "ValueError"

\* C29: publish and notify_local_subscribers return to their caller only
\* when the delivery to every subscriber they dispatched to has finished,
\* also when the delivery to one of them fails.
C29_ReturnsAfterEveryDelivery ==
    (last.op \in {"publish", "notify_local_subscribers"} /\ last.caller # "waiting")
    => last.pending = {}

\* C30: in every reachable state of the broker, each connection in the
\* subscriber set of a topic has an identity (it connected and was not
\* disconnected since), and each topic with a subscriber set is declared.
C30_SubscribersHaveIdentity ==
    \A t \in DOMAIN mq.topics :
        /\ t \in mq.available_topics
        /\ \A c \in mq.topics[t] : c \in DOMAIN mq.identifier_by_ws

\* One connection was disconnected while the other, whose transport is
\* closed, is still subscribed to two topics
C30_Witness ==
    /\ last.op = "disconnect"
    /\ last.ws \in DOMAIN last.before.identifier_by_ws
    /\ last.ws \in Get(last.before.topics, TopicA, {})
    /\ \E c \in Conns \ {last.ws} :
          /\ ws[c] = "closed"
          /\ Get(mq.topics, TopicA, {}) = {c}
          /\ Get(mq.topics, TopicB, {}) = {c}

\* C31: before the CONNECT of a connection has been accepted, a PUBLISH
\* received on it is delivered to no local subscriber and a SUBSCRIBE received
\* on it adds no subscription.
C31_NothingBeforeConnect ==
    (last.op = "read_ws_packet" /\ last.ws \notin DOMAIN mq.identifier_by_ws)
    => /\ last.notified = {}
       /\ \A i \in 1..Len(last.calls) : last.calls[i].op # "notify_local_subscribers"
       /\ \A t \in DOMAIN mq.topics : last.ws \notin mq.topics[t]

\* C32: for every topic name t, with or without a leading "/", once
\* ensure_topic_exists(t) has returned true, subscribe(t) with the same string
\* by a connected connection succeeds and a publish to the string t reaches
\* that connection.
C32_DeclaredNameUsable ==
    [][(/\ last'.op = "subscribe"
        /\ last'.arg \in ensured
        /\ last'.ws \in DOMAIN mq.identifier_by_ws)
       => /\ last'.ret = TRUE
          /\ last'.ws \in PublishTargets(mq', last'.arg)
          /\ ws[last'.ws] = "open"
             => BackendPublish(mq', ws', last'.arg, ApiText).sent[last'.ws]
                   = << Utf8Encode(ApiText) >>]_vars

\* The bytes of the packets ps one after the other
RECURSIVE Joined(_)
Joined(ps) == IF ps = << >> THEN << >> ELSE Head(ps).packet \o Joined(Tail(ps))

\* C33: after any sequence of append_fragment calls that raised no error, the
\* packets returned so far, in order, followed by the buffer of the assembler
\* are the bytes fed so far, and right after a packet is returned the cached
\* total length and header offset are zero.
C33_NoByteLost ==
    feed.err = "none" =>
        /\ Joined(feed.returned) \o feed.asm.buffer \o feed.rest = feed.stream
        /\ feed.ret # NoPacket =>
              /\ feed.asm.total_length = 0
              /\ feed.asm.start_payload = 0

\* A call returned a packet and kept the surplus bytes of the fragment
C33_Witness ==
    /\ feed.err = "none"
    /\ feed.ret # NoPacket
    /\ feed.asm.buffer # << >>
    /\ Len(feed.returned) = 1

\* The connection d has the same identity and is a member of the same
\* subscriber sets in the backends b and a
SameStanding(d, b, a) ==
    /\ d \in DOMAIN b.identifier_by_ws <=> d \in DOMAIN a.identifier_by_ws
    /\ d \in DOMAIN b.identifier_by_ws => b.identifier_by_ws[d] = a.identifier_by_ws[d]
    /\ \A t \in DOMAIN b.topics \cup DOMAIN a.topics :
          d \in Get(b.topics, t, {}) <=> d \in Get(a.topics, t, {})

\* C34: connect, subscribe, unsubscribe and disconnect called for one
\* connection leave the identity of every other connection and its membership
\* in every subscriber set as they were, whatever the call returns.
C34_OtherConnectionsUntouched ==
    last.op \in {"connect", "subscribe", "unsubscribe", "disconnect"} =>
        \A d \in Conns \ {last.ws} : SameStanding(d, last.before, mq)

\* A connection disconnected while another one was subscribed to the same topic
C34_Witness ==
    /\ last.op = "disconnect"
    /\ \E t \in DOMAIN last.before.topics :
          /\ last.ws \in last.before.topics[t]
          /\ \E d \in Conns \ {last.ws} : d \in last.before.topics[t]

\* The backend b after the calls of log, one after the other
RECURSIVE Replay(_, _)
Replay(b, log) ==
    IF log = << >> THEN b
    ELSE LET e == Head(log)
             n == CASE e.op = "subscribe"   -> subscribe(b, e.ws, e.topic).mq
                    [] e.op = "unsubscribe" -> unsubscribe(b, e.ws, e.topic).mq
                    [] e.op = "disconnect"  -> disconnect(b, e.ws).mq
         IN Replay(n, Tail(log))

\* C35: when subscribe, unsubscribe and disconnect of other tasks run during
\* the fan-out of a publish, once no delivery is pending every connection
\* subscribed to the topic during the whole fan-out has received the packet,
\* no connection outside the subscriber set has, and the backend is the one the
\* calls produce one after the other.
C35_FanOutUnderMutation ==
    (last.op = "publish" /\ last.pending = {}) =>
        /\ last.steady \subseteq last.done
        /\ last.done \subseteq PublishTargets(last.before, last.arg)
        /\ mq = Replay(last.before, last.log)

\* C36: each message of a connection is handled to its end in one turn of
\* that connection's task: the packet comes from the connection's own
\* assembler and the fragment just read, at most one response is sent, it is
\* the response to that packet and goes to that connection, and the
\* assemblers of the other connections are left as they were.
C36_OneAtATime ==
    [][last'.op = "read_ws_packet" =>
         LET c == last'.ws
             a == append_fragment(asm[c], last'.arg.data)
         IN /\ nmsg'[c] = nmsg[c] + 1
            /\ asm'[c] = a.asm
            /\ Len(last'.packets) <= 1 /\ Len(last'.sent[c]) <= 1
            /\ last'.sent[c] # << >> =>
                  /\ a.packet # NoPacket
                  /\ last'.packets = << a.packet >>
                  /\ last'.sent[c] = << analyze_mqtt_packet(a.packet, mq, c).response >>
            /\ \A d \in Conns \ {c} :
                  /\ asm'[d] = asm[d]
                  /\ nmsg'[d] = nmsg[d]
                  /\ last'.sent[d] = << >>]_vars

\* A connection completed its PINGREQ and was answered while the other
\* connection's assembler held the first byte of a packet
C36_Witness ==
    /\ last.op = "read_ws_packet"
    /\ last.arg = Binary(<< 0 >>)
    /\ last.sent[last.ws] = << create_mqtt_pingresp_packet >>
    /\ \E d \in Conns \ {last.ws} : asm[d].buffer = << 192 >>

\* The remaining length of the packet p counts the bytes that follow it
WellFramed(p) ==
    LET d == decode_remaining_length(SliceFrom(p, 1))
    IN d.err = "none" /\ d.value = Len(p) - 1 - d.bytes_used

\* C37: every packet the server sends carries, after its first byte, a
\* remaining length that decode_remaining_length decodes to the number of
\* bytes that follow the field, SUBACK with 126 or more return codes included.
C37_WellFramed ==
    \A c \in Conns : \A i \in 1..Len(last.sent[c]) : WellFramed(last.sent[c][i])

\* C38: in every reachable state of the broker, whatever subscribe,
\* unsubscribe, disconnect and the garbage collection of closed connections
\* did, no entry of the topics dictionary holds an empty subscriber set.
C38_NoEmptySubscriberSet ==
    \A t \in DOMAIN mq.topics : mq.topics[t] # {}

\* C39: when a CONNECT is accepted, the identity the backend holds for the
\* connection is the client identifier of the CONNECT payload, with and
\* without a username in the packet.
C39_IdentityIsClientId ==
    (/\ last.op = "read_ws_packet"
     /\ Len(last.packets) = 1
     /\ Len(last.calls) >= 1
     /\ last.calls[1].op = "connect"
     /\ last.calls[1].ret = TRUE)
    => /\ last.ws \in DOMAIN mq.identifier_by_ws
       /\ mq.identifier_by_ws[last.ws]
             = analyze_mqtt_connect_packet(
                   variable_header_and_payload(last.packets[1])).client_id

============================================================================
